---------------------------- MODULE Spec2Model ----------------------------
(***************************************************************************)
(* Model of cpp_to_rust_generator/src/rust_generator.rs: the projection of *)
(* a parsed C++ API onto a Rust API (names, enums, overloads, modules).    *)
(*                                                                         *)
(* Identifiers are sequences of one-character strings, so that word        *)
(* splitting, case conversion and reserved-word escaping are computed and  *)
(* not assumed.  The iteration order of a HashMap or HashSet is a          *)
(* nondeterministic choice among the orders of its keys.                   *)
(***************************************************************************)
EXTENDS Integers, Sequences, FiniteSets, TLC

VARIABLES
  pc,            \* position of the modelled call
  enum_values,   \* prepare_enum_values: the `values` argument
  enum_result,   \* prepare_enum_values: what the call produced
  ov_methods,    \* overload_functions: the `methods` argument
  ov_result,     \* overload_functions: what the call produced
  ov_final,      \* process_all_sibling_functions: the methods made of the buckets
  run_types,          \* run: cpp_data.current.parser.types
  run_instantiations, \* run: cpp_data.current.processed.template_instantiations
  run_methods,        \* run: the methods of cpp_ffi_headers
  top_module_names,   \* RustGenerator::top_module_names
  processed_types,    \* RustGenerator::processed_types while it is built and after
  unnamed_items,      \* calc_processed_types: instantiations still without a name
  any_success,        \* calc_processed_types: the flag of the while loop
  passes,             \* calc_processed_types: iterations of the while loop begun so far
  cpp_methods,        \* run: the methods not yet taken by a module
  module_names,       \* run: the module names still to generate
  modules,            \* run: the modules generated so far
  run_log,            \* what the run has logged
  run_result,         \* what run() returned
  run_no,             \* 1 for the first run on the input, 2 for the second
  first_result,       \* what the first run returned
  name_input,    \* the Name Resolver: the arguments of the call
  name_result,   \* the Name Resolver: what the call produced
  type_input,    \* ffi_type, complete_type: the arguments of the call
  type_result,   \* ffi_type, complete_type: what the call returned
  method_input,  \* process_all_sibling_functions: the scope and its methods
  method_result  \* process_all_sibling_functions: what the call produced

enumVars == <<enum_values, enum_result>>

ovVars == <<ov_methods, ov_result, ov_final>>

runInput == <<run_types, run_instantiations, run_methods>>

runState ==
  <<top_module_names, processed_types, unnamed_items, any_success, passes, cpp_methods,
    module_names, modules, run_log, run_result>>

runVars == <<runInput, runState, run_no, first_result>>

nameVars == <<name_input, name_result>>

typeVars == <<type_input, type_result>>

methodVars == <<method_input, method_result>>

vars == <<pc, enumVars, ovVars, runVars, nameVars, typeVars, methodVars>>

(***************************************************************************)
(* Characters and strings                                                  *)
(***************************************************************************)
LowerChars ==
  <<"a","b","c","d","e","f","g","h","i","j","k","l","m",
    "n","o","p","q","r","s","t","u","v","w","x","y","z">>

UpperChars ==
  <<"A","B","C","D","E","F","G","H","I","J","K","L","M",
    "N","O","P","Q","R","S","T","U","V","W","X","Y","Z">>

DigitChars == {"0","1","2","3","4","5","6","7","8","9"}

IsUpper(c) == \E i \in DOMAIN UpperChars : UpperChars[i] = c

IsLower(c) == \E i \in DOMAIN LowerChars : LowerChars[i] = c

\* char::is_digit(10)
IsDigit(c) == c \in DigitChars

ToUpper(c) ==
  IF IsLower(c) THEN UpperChars[CHOOSE i \in DOMAIN LowerChars : LowerChars[i] = c] ELSE c

ToLower(c) ==
  IF IsUpper(c) THEN LowerChars[CHOOSE i \in DOMAIN UpperChars : UpperChars[i] = c] ELSE c

StrToLower(s) == [i \in DOMAIN s |-> ToLower(s[i])]

RECURSIVE Concat(_)
Concat(ss) == IF ss = <<>> THEN <<>> ELSE Head(ss) \o Concat(Tail(ss))

RECURSIVE JoinWith(_, _)
JoinWith(ss, sep) ==
  IF ss = <<>> THEN <<>>
  ELSE IF Len(ss) = 1 THEN ss[1]
  ELSE ss[1] \o sep \o JoinWith(Tail(ss), sep)

\* str.starts_with(|c| c.is_digit(10))
StartsWithDigit(s) == s # <<>> /\ IsDigit(s[1])

(***************************************************************************)
(* common::string_utils (WordIterator, CaseOperations)                     *)
(***************************************************************************)
\* First index at or after j where the word that started before j ends.
RECURSIVE WordEnd(_, _, _)
WordEnd(s, j, is_number) ==
  IF j > Len(s) THEN j
  ELSE IF s[j] = "_" \/ IsUpper(s[j]) THEN j
  ELSE IF ~is_number /\ IsDigit(s[j]) THEN j
  ELSE WordEnd(s, j + 1, is_number)

RECURSIVE WordsFrom(_, _)
WordsFrom(s, i) ==
  IF i > Len(s) THEN <<>>
  ELSE IF s[i] = "_" THEN WordsFrom(s, i + 1)
  ELSE LET e == WordEnd(s, i + 1, IsDigit(s[i]))
       IN  <<SubSeq(s, i, e - 1)>> \o WordsFrom(s, e)

\* WordIterator::new(s).collect(): words at underscores, capitals and digits.
WordIterator(s) == WordsFrom(s, 1)

Capitalize(w) == [i \in DOMAIN w |-> IF i = 1 THEN ToUpper(w[i]) ELSE ToLower(w[i])]

\* Vec<&str>::to_class_case
words_to_class_case(ws) == Concat([i \in DOMAIN ws |-> Capitalize(ws[i])])

IsAllDigits(w) == \A i \in DOMAIN w : IsDigit(w[i])

RECURSIVE SnakeJoin(_, _)
SnakeJoin(acc, ws) ==
  IF ws = <<>> THEN acc
  ELSE LET part == StrToLower(Head(ws))
           glue == IsAllDigits(part) /\ acc # <<>> /\ ~IsDigit(acc[Len(acc)])
       IN  SnakeJoin(IF acc = <<>> \/ glue THEN acc \o part ELSE acc \o <<"_">> \o part,
                     Tail(ws))

\* replace_all_sub_vecs: wherever the words of `needle` follow each other in
\* `parts` they become one word.
RECURSIVE replace_all_sub_vecs(_, _)
replace_all_sub_vecs(parts, needle) ==
  IF Len(parts) < Len(needle) THEN parts
  ELSE IF SubSeq(parts, 1, Len(needle)) = needle
       THEN <<Concat(needle)>>
            \o replace_all_sub_vecs(SubSeq(parts, Len(needle) + 1, Len(parts)), needle)
       ELSE <<Head(parts)>> \o replace_all_sub_vecs(Tail(parts), needle)

\* The word groups that snake case keeps together: NaN, OpenGL, IO, 2D, 3D, 4D.
SnakeCaseWordGroups ==
  << << <<"n","a">>, <<"n">> >>, << <<"o","p","e","n">>, <<"g">>, <<"l">> >>,
     << <<"i">>, <<"o">> >>, << <<"2">>, <<"d">> >>, << <<"3">>, <<"d">> >>,
     << <<"4">>, <<"d">> >> >>

RECURSIVE replace_word_groups(_, _)
replace_word_groups(parts, groups) ==
  IF groups = <<>> THEN parts
  ELSE replace_word_groups(replace_all_sub_vecs(parts, Head(groups)), Tail(groups))

\* Vec<&str>::to_snake_case
words_to_snake_case(ws) ==
  SnakeJoin(<<>>, replace_word_groups([i \in DOMAIN ws |-> StrToLower(ws[i])],
                                      SnakeCaseWordGroups))

\* str::to_class_case
to_class_case(s) == words_to_class_case(WordIterator(s))

\* str::to_snake_case
to_snake_case(s) == words_to_snake_case(WordIterator(s))

(***************************************************************************)
(* sanitize_rust_identifier                                                *)
(***************************************************************************)
ReservedWords ==
  { <<"a","b","s","t","r","a","c","t">>, <<"a","l","i","g","n","o","f">>, <<"a","s">>,
    <<"b","e","c","o","m","e">>, <<"b","o","x">>, <<"b","r","e","a","k">>,
    <<"c","o","n","s","t">>, <<"c","o","n","t","i","n","u","e">>, <<"c","r","a","t","e">>,
    <<"d","o">>, <<"e","l","s","e">>, <<"e","n","u","m">>, <<"e","x","t","e","r","n">>,
    <<"f","a","l","s","e">>, <<"f","i","n","a","l">>, <<"f","n">>, <<"f","o","r">>,
    <<"i","f">>, <<"i","m","p","l">>, <<"i","n">>, <<"l","e","t">>, <<"l","o","o","p">>,
    <<"m","a","c","r","o">>, <<"m","a","t","c","h">>, <<"m","o","d">>, <<"m","o","v","e">>,
    <<"m","u","t">>, <<"o","f","f","s","e","t","o","f">>, <<"o","v","e","r","r","i","d","e">>,
    <<"p","r","i","v">>, <<"p","r","o","c">>, <<"p","u","b">>, <<"p","u","r","e">>,
    <<"r","e","f">>, <<"r","e","t","u","r","n">>, <<"S","e","l","f">>, <<"s","e","l","f">>,
    <<"s","i","z","e","o","f">>, <<"s","t","a","t","i","c">>, <<"s","t","r","u","c","t">>,
    <<"s","u","p","e","r">>, <<"t","r","a","i","t">>, <<"t","r","u","e">>,
    <<"t","y","p","e">>, <<"t","y","p","e","o","f">>, <<"u","n","s","a","f","e">>,
    <<"u","n","s","i","z","e","d">>, <<"u","s","e">>, <<"v","i","r","t","u","a","l">>,
    <<"w","h","e","r","e">>, <<"w","h","i","l","e">>, <<"y","i","e","l","d">> }

sanitize_rust_identifier(name) ==
  IF name \in ReservedWords THEN name \o <<"_">> ELSE name

(***************************************************************************)
(* prepare_enum_values                                                     *)
(***************************************************************************)
\* A stable insertion sort by the `value` field: Vec::sort_by(a.value.cmp(b.value)).
RECURSIVE InsertByValue(_, _)
InsertByValue(sorted, x) ==
  IF sorted = <<>> THEN <<x>>
  ELSE IF sorted[Len(sorted)].value <= x.value THEN Append(sorted, x)
  ELSE Append(InsertByValue(SubSeq(sorted, 1, Len(sorted) - 1), x), sorted[Len(sorted)])

RECURSIVE SortByValue(_)
SortByValue(s) ==
  IF s = <<>> THEN <<>>
  ELSE InsertByValue(SortByValue(SubSeq(s, 1, Len(s) - 1)), s[Len(s)])

\* value_to_variant with an occupied entry renamed by every later input entry
\* of its value.
value_to_variant_last_name_wins(values) ==
  [v \in {values[i].value : i \in DOMAIN values} |->
     LET idx  == {i \in DOMAIN values : values[i].value = v}
         last == CHOOSE i \in idx : \A j \in idx : i >= j
         docs == SelectSeq([i \in DOMAIN values |-> values[i]], LAMBDA e : e.value = v)
     IN  [name     |-> sanitize_rust_identifier(to_class_case(values[last].name)),
          value    |-> v,
          cpp_docs |-> [i \in DOMAIN docs |-> docs[i].name],
          is_dummy |-> FALSE]]

\* The HashMap<i64, RustEnumValue> after the first loop: one entry per value,
\* named after the first input entry with that value, later names appended to
\* cpp_docs only.
value_to_variant(values) ==
  [v \in {values[i].value : i \in DOMAIN values} |->
     LET idx   == {i \in DOMAIN values : values[i].value = v}
         first == CHOOSE i \in idx : \A j \in idx : i <= j
         docs  == SelectSeq([i \in DOMAIN values |-> values[i]], LAMBDA e : e.value = v)
     IN  [name     |-> sanitize_rust_identifier(to_class_case(values[first].name)),
          value    |-> v,
          cpp_docs |-> [i \in DOMAIN docs |-> docs[i].name],
          is_dummy |-> FALSE]]

\* while !common_prefix.is_empty() && (item.len() < len || item[..len] != common_prefix)
RECURSIVE ShrinkPrefix(_, _)
ShrinkPrefix(item, common_prefix) ==
  IF common_prefix # <<>> /\
     (Len(item) < Len(common_prefix) \/ SubSeq(item, 1, Len(common_prefix)) # common_prefix)
  THEN ShrinkPrefix(item, SubSeq(common_prefix, 1, Len(common_prefix) - 1))
  ELSE common_prefix

\* while !common_suffix.is_empty() && (item.len() < len || item[item.len()-len..] != common_suffix)
RECURSIVE ShrinkSuffix(_, _)
ShrinkSuffix(item, common_suffix) ==
  IF common_suffix # <<>> /\
     (Len(item) < Len(common_suffix) \/
      SubSeq(item, Len(item) - Len(common_suffix) + 1, Len(item)) # common_suffix)
  THEN ShrinkSuffix(item, Tail(common_suffix))
  ELSE common_suffix

RECURSIVE CommonPrefix(_, _)
CommonPrefix(all_words, common_prefix) ==
  IF all_words = <<>> THEN common_prefix
  ELSE CommonPrefix(Tail(all_words), ShrinkPrefix(Head(all_words), common_prefix))

\* CommonSuffix with the trailing words never looked at.
CommonSuffix_not_computed(all_words, common_suffix) == <<>>

RECURSIVE CommonSuffix(_, _)
CommonSuffix(all_words, common_suffix) ==
  IF all_words = <<>> THEN common_suffix
  ELSE CommonSuffix(Tail(all_words), ShrinkSuffix(Head(all_words), common_suffix))

\* BadShortName without the test for a leading digit.
BadShortName_empty_only(n) == n = <<>>

\* new_names.iter().any(|item| first char is a digit, or there is none)
BadShortName(n) == n = <<>> \/ IsDigit(n[1])

\* prepare_enum_values with the added variant always at value 0.
prepare_enum_values_dummy_at_zero(values, order) ==
  LET collected == [i \in DOMAIN order |-> value_to_variant(values)[order[i]]]
  IN  [panicked |-> FALSE,
       variants |-> SortByValue(IF Len(collected) = 1
                                THEN Append(collected,
                                            [name     |-> <<"_","I","n","v","a","l","i","d">>,
                                             value    |-> 0,
                                             cpp_docs |-> <<>>,
                                             is_dummy |-> TRUE])
                                ELSE collected)]

\* prepare_enum_values(values), with `order` the order in which the HashMap
\* hands out its keys.  The result is [panicked, variants]: the slice
\* item[prefix.len() .. item.len() - suffix.len()] aborts the call when its
\* start is past its end.
prepare_enum_values(values, order) ==
  LET map           == value_to_variant(values)
      more_than_one == Cardinality(DOMAIN map) > 1
      dummy_value   == IF 0 \in DOMAIN map THEN 1 ELSE 0
      collected     == [i \in DOMAIN order |-> map[order[i]]]
      result        == IF Len(collected) = 1
                       THEN Append(collected,
                                   [name     |-> <<"_","I","n","v","a","l","i","d">>,
                                    value    |-> dummy_value,
                                    cpp_docs |-> <<>>,
                                    is_dummy |-> TRUE])
                       ELSE collected
      all_words     == [i \in DOMAIN result |-> WordIterator(result[i].name)]
      common_prefix == CommonPrefix(all_words, all_words[1])
      common_suffix == CommonSuffix(all_words, all_words[1])
      cut           == Len(common_prefix) + Len(common_suffix)
      out_of_range  == \E i \in DOMAIN all_words : cut > Len(all_words[i])
      new_names     == [i \in DOMAIN all_words |->
                          Concat(SubSeq(all_words[i], Len(common_prefix) + 1,
                                        Len(all_words[i]) - Len(common_suffix)))]
      renamed       == IF \E i \in DOMAIN new_names : BadShortName(new_names[i])
                       THEN result
                       ELSE [i \in DOMAIN result |->
                               [result[i] EXCEPT !.name = sanitize_rust_identifier(new_names[i])]]
  IN  IF ~more_than_one THEN [panicked |-> FALSE, variants |-> SortByValue(result)]
      ELSE IF out_of_range THEN [panicked |-> TRUE, variants |-> <<>>]
      ELSE [panicked |-> FALSE, variants |-> SortByValue(renamed)]

(***************************************************************************)
(* RustSingleMethod and the Overload Resolver                              *)
(*                                                                         *)
(* A RustMethodArgument is [name, cpp_type, indirection, is_const,         *)
(* ffi_index]: cpp_type stands for argument_type.cpp_type, indirection     *)
(* and is_const for those of argument_type.rust_api_type.  An              *)
(* Option<String> is <<"None">> or <<"Some", s>>.                          *)
(***************************************************************************)
None == <<"None">>

Some(s) == <<"Some", s>>

SelfName == <<"s","e","l","f">>

MarkerName ==
  <<"a","l","l","o","c","a","t","i","o","n","_",
    "p","l","a","c","e","_","m","a","r","k","e","r">>

\* CppType::can_be_the_same_as: the same type, or a platform-dependent built-in
\* numeric type and a fixed-width one that it may be on some platform.
can_be_the_same_as(t1, t2) ==
  \/ t1 = t2
  \/ {t1, t2} = {"int", "qint32"}

\* RustType::is_unsafe_argument: a raw pointer asks the caller for validity.
is_unsafe_argument(arg) == arg.indirection \in {"Ptr", "PtrPtr"}

\* RustSingleMethod::self_arg_kind; "Err" stands for the Err result.
self_arg_kind(m) ==
  IF m.arguments # <<>> /\ m.arguments[1].name = SelfName
  THEN CASE m.arguments[1].indirection = "Ref" ->
              IF m.arguments[1].is_const THEN "ConstRef" ELSE "MutRef"
         [] m.arguments[1].indirection = "None" -> "Value"
         [] OTHER -> "Err"
  ELSE "None"

\* can_be_overloaded_with without the comparison of the caller-trust flags.
can_be_overloaded_with_ignoring_unsafe(m, other_method) ==
  IF self_arg_kind(m) # self_arg_kind(other_method) THEN FALSE
  ELSE IF Len(m.arguments) = Len(other_method.arguments) /\
          \A i \in DOMAIN m.arguments :
            LET arg1 == m.arguments[i]
                arg2 == other_method.arguments[i]
            IN  /\ can_be_the_same_as(arg1.cpp_type, arg2.cpp_type)
                /\ ~(arg1.name = MarkerName /\ arg2.name = MarkerName /\ arg1 # arg2)
       THEN FALSE
       ELSE TRUE

\* can_be_overloaded_with refusing two methods of different argument count.
can_be_overloaded_with_same_count_only(m, other_method) ==
  /\ m.is_unsafe = other_method.is_unsafe
  /\ self_arg_kind(m) = self_arg_kind(other_method)
  /\ Len(m.arguments) = Len(other_method.arguments)
  /\ ~ \A i \in DOMAIN m.arguments :
         LET arg1 == m.arguments[i]
             arg2 == other_method.arguments[i]
         IN  /\ can_be_the_same_as(arg1.cpp_type, arg2.cpp_type)
             /\ ~(arg1.name = MarkerName /\ arg2.name = MarkerName /\ arg1 # arg2)

\* RustSingleMethod::can_be_overloaded_with
can_be_overloaded_with(m, other_method) ==
  IF m.is_unsafe # other_method.is_unsafe THEN FALSE
  ELSE IF self_arg_kind(m) # self_arg_kind(other_method) THEN FALSE
  ELSE IF Len(m.arguments) = Len(other_method.arguments) /\
          \A i \in DOMAIN m.arguments :
            LET arg1 == m.arguments[i]
                arg2 == other_method.arguments[i]
            IN  /\ can_be_the_same_as(arg1.cpp_type, arg2.cpp_type)
                /\ ~(arg1.name = MarkerName /\ arg2.name = MarkerName /\ arg1 # arg2)
       THEN FALSE
       ELSE TRUE

\* usize::to_string
RECURSIVE NatToString(_)
NatToString(n) ==
  LET digit(d) == <<"0","1","2","3","4","5","6","7","8","9">>[d + 1]
  IN  IF n < 10 THEN <<digit(n)>> ELSE NatToString(n \div 10) \o <<digit(n % 10)>>

\* RustType::caption of an argument's API type: the type's own caption, after
\* the marker of its indirection.
type_caption(arg) ==
  LET base == CASE arg.cpp_type = "int"    -> <<"i","n","t">>
                [] arg.cpp_type = "qint32" -> <<"i","3","2">>
                [] arg.cpp_type = "QB"     -> <<"b">>
                [] OTHER                   -> <<"t">>
  IN  CASE arg.indirection = "Ref" -> <<"r","e","f","_">> \o base
        [] arg.indirection = "Ptr" -> <<"p","t","r","_">> \o base
        [] OTHER                   -> base

\* RustMethodCaptionStrategy::all(), in the order it lists the strategies.
RustMethodCaptionStrategy_all ==
  <<"UnsafeOnly", "SelfOnly", "SelfAndIndex", "SelfAndArgNames", "SelfAndArgTypes">>

\* name_suffix whose strategy SelfAndIndex leaves the bucket index out.
name_suffix_without_index(m, caption_strategy, all_self_args, index) ==
  IF caption_strategy = "UnsafeOnly"
  THEN [ok |-> TRUE,
        caption |-> IF m.is_unsafe THEN Some(<<"u","n","s","a","f","e">>) ELSE None]
  ELSE
    LET kind == self_arg_kind(m)
        unsupported ==
          /\ ~(Cardinality(all_self_args) = 1 \/ kind = "ConstRef")
          /\ kind \notin {"None", "MutRef"}
        self_arg_kind_caption ==
          IF Cardinality(all_self_args) = 1 \/ kind = "ConstRef" THEN None
          ELSE IF kind = "None" THEN Some(<<"s","t","a","t","i","c">>)
          ELSE IF "ConstRef" \in all_self_args THEN Some(<<"m","u","t">>)
          ELSE None
        names == [i \in DOMAIN m.arguments |-> m.arguments[i].name]
        not_self == SelectSeq(m.arguments, LAMBDA a : a.name # SelfName)
        other_caption ==
          CASE caption_strategy = "SelfOnly" -> None
            [] caption_strategy = "SelfAndIndex" -> None
            [] caption_strategy = "SelfAndArgNames" ->
                 IF m.arguments = <<>> THEN Some(<<"n","o","_","a","r","g","s">>)
                 ELSE Some(JoinWith(names, <<"_">>))
            [] caption_strategy = "SelfAndArgTypes" ->
                 IF m.arguments = <<>> THEN Some(<<"n","o","_","a","r","g","s">>)
                 ELSE Some(JoinWith([i \in DOMAIN not_self |-> type_caption(not_self[i])],
                                    <<"_">>))
        key_caption_items ==
          (IF self_arg_kind_caption = None THEN <<>> ELSE <<self_arg_kind_caption[2]>>)
          \o (IF other_caption = None THEN <<>> ELSE <<other_caption[2]>>)
    IN  IF kind = "Err" \/ unsupported THEN [ok |-> FALSE, caption |-> None]
        ELSE [ok |-> TRUE,
              caption |-> IF key_caption_items = <<>> THEN None
                          ELSE Some(JoinWith(key_caption_items, <<"_">>))]

\* RustSingleMethod::name_suffix: [ok, caption], ok = FALSE for an Err.
name_suffix(m, caption_strategy, all_self_args, index) ==
  IF caption_strategy = "UnsafeOnly"
  THEN [ok |-> TRUE,
        caption |-> IF m.is_unsafe THEN Some(<<"u","n","s","a","f","e">>) ELSE None]
  ELSE
    LET kind == self_arg_kind(m)
        unsupported ==
          /\ ~(Cardinality(all_self_args) = 1 \/ kind = "ConstRef")
          /\ kind \notin {"None", "MutRef"}
        self_arg_kind_caption ==
          IF Cardinality(all_self_args) = 1 \/ kind = "ConstRef" THEN None
          ELSE IF kind = "None" THEN Some(<<"s","t","a","t","i","c">>)
          ELSE IF "ConstRef" \in all_self_args THEN Some(<<"m","u","t">>)
          ELSE None
        names == [i \in DOMAIN m.arguments |-> m.arguments[i].name]
        not_self == SelectSeq(m.arguments, LAMBDA a : a.name # SelfName)
        other_caption ==
          CASE caption_strategy = "SelfOnly" -> None
            [] caption_strategy = "SelfAndIndex" -> Some(NatToString(index))
            [] caption_strategy = "SelfAndArgNames" ->
                 IF m.arguments = <<>> THEN Some(<<"n","o","_","a","r","g","s">>)
                 ELSE Some(JoinWith(names, <<"_">>))
            [] caption_strategy = "SelfAndArgTypes" ->
                 IF m.arguments = <<>> THEN Some(<<"n","o","_","a","r","g","s">>)
                 ELSE Some(JoinWith([i \in DOMAIN not_self |-> type_caption(not_self[i])],
                                    <<"_">>))
        key_caption_items ==
          (IF self_arg_kind_caption = None THEN <<>> ELSE <<self_arg_kind_caption[2]>>)
          \o (IF other_caption = None THEN <<>> ELSE <<other_caption[2]>>)
    IN  IF kind = "Err" \/ unsupported THEN [ok |-> FALSE, caption |-> None]
        ELSE [ok |-> TRUE,
              caption |-> IF key_caption_items = <<>> THEN None
                          ELSE Some(JoinWith(key_caption_items, <<"_">>))]

\* The first loop of overload_functions: each method goes to the first bucket
\* all of whose members can be overloaded with it, or opens a new bucket.
RECURSIVE make_buckets(_, _)
make_buckets(buckets, methods) ==
  IF methods = <<>> THEN buckets
  ELSE LET method == Head(methods)
           fits == {b \in DOMAIN buckets :
                      \A i \in DOMAIN buckets[b] : can_be_overloaded_with(buckets[b][i], method)}
       IN  IF fits # {}
           THEN LET b == CHOOSE x \in fits : \A y \in fits : x <= y
                IN  make_buckets([buckets EXCEPT ![b] = Append(@, method)], Tail(methods))
           ELSE make_buckets(Append(buckets, <<method>>), Tail(methods))

all_self_args_of(buckets) == {self_arg_kind(buckets[b][1]) : b \in DOMAIN buckets}

\* The captions try_strategy collects, bucket by bucket.
bucket_captions(buckets, strategy) ==
  [b \in DOMAIN buckets |->
     name_suffix(buckets[b][1], strategy, all_self_args_of(buckets), b - 1).caption]

\* try_strategy without the test for equal captions of two buckets.
try_strategy_without_distinctness(buckets, strategy) ==
  LET all == all_self_args_of(buckets)
      suffix(b, i) == name_suffix(buckets[b][i], strategy, all, b - 1)
  IN  [ok |-> /\ \A b \in DOMAIN buckets : \A i \in DOMAIN buckets[b] : suffix(b, i).ok
              /\ \A b \in DOMAIN buckets : \A i \in DOMAIN buckets[b] :
                   suffix(b, i).caption = suffix(b, 1).caption,
       names |-> bucket_captions(buckets, strategy)]

\* The closure try_strategy of overload_functions: [ok, names].
try_strategy(buckets, strategy) ==
  LET all == all_self_args_of(buckets)
      suffix(b, i) == name_suffix(buckets[b][i], strategy, all, b - 1)
  IN  [ok |-> /\ \A b \in DOMAIN buckets : \A i \in DOMAIN buckets[b] : suffix(b, i).ok
              /\ \A b \in DOMAIN buckets : \A i \in DOMAIN buckets[b] :
                   suffix(b, i).caption = suffix(b, 1).caption
              /\ \A b1, b2 \in DOMAIN buckets :
                   b1 # b2 => suffix(b1, 1).caption # suffix(b2, 1).caption,
       names |-> bucket_captions(buckets, strategy)]

NoFinalMethods == [ok |-> FALSE, methods |-> <<>>]

NoOverloadResult == [ok |-> FALSE, strategy |-> "", names |-> <<>>, buckets |-> <<>>]

\* overload_functions that goes on after the first accepted strategy and
\* keeps the last one accepted.
overload_functions_last_accepted(methods) ==
  LET buckets == make_buckets(<<>>, methods)
      good == {s \in DOMAIN RustMethodCaptionStrategy_all :
                 try_strategy(buckets, RustMethodCaptionStrategy_all[s]).ok}
  IN  IF good = {}
      THEN [ok |-> FALSE, strategy |-> "", names |-> <<>>, buckets |-> buckets]
      ELSE LET s == CHOOSE x \in good : \A y \in good : x >= y
               strategy == RustMethodCaptionStrategy_all[s]
           IN  [ok |-> TRUE, strategy |-> strategy,
                names |-> try_strategy(buckets, strategy).names,
                buckets |-> buckets]

\* RustGenerator::overload_functions: [ok, strategy, names, buckets]; names[b]
\* is the caption returned with buckets[b].  `strategy` records which strategy
\* was accepted; the code returns only its captions.
overload_functions(methods) ==
  LET buckets == make_buckets(<<>>, methods)
      good == {s \in DOMAIN RustMethodCaptionStrategy_all :
                 try_strategy(buckets, RustMethodCaptionStrategy_all[s]).ok}
  IN  IF good = {}
      THEN [ok |-> FALSE, strategy |-> "", names |-> <<>>, buckets |-> buckets]
      ELSE LET s == CHOOSE x \in good : \A y \in good : x <= y
               strategy == RustMethodCaptionStrategy_all[s]
           IN  [ok |-> TRUE, strategy |-> strategy,
                names |-> try_strategy(buckets, strategy).names,
                buckets |-> buckets]

(***************************************************************************)
(* Inputs of the enum projector                                            *)
(***************************************************************************)
MaxEnumLen == 3

EnumNameValues == {0, 1, 2}

EnumNames ==
  { <<"v","a","r","1">>, <<"V","a","r","1">>,
    <<"V","a","r","G","o","o","d">>, <<"V","a","r","B","a","d">>,
    <<"G","o","o","d">>, <<"G","o","o","d","G","o","o","d">>,
    <<"S","e","l","f">> }

CppEnumValue == [name : EnumNames, value : EnumNameValues]

\* The enumerators of one C++ enum: any values, pairwise different names.
EnumInputs ==
  UNION { { s \in [1..n -> CppEnumValue] :
              \A i, j \in 1..n : i # j => s[i].name # s[j].name } : n \in 0..MaxEnumLen }

DistinctValues(values) == {values[i].value : i \in DOMAIN values}

\* Every order in which a HashMap may iterate over the keys `S`.
Orders(S) ==
  { o \in [1..Cardinality(S) -> S] : \A i, j \in DOMAIN o : i # j => o[i] # o[j] }

NoEnumResult == [panicked |-> FALSE, variants |-> <<>>]

(***************************************************************************)
(* Inputs of the overload resolver: single-variant methods of one target   *)
(* name in one scope, as generate_rust_single_method builds them.          *)
(***************************************************************************)
MaxMethods == 3

Arg(name, cpp_type, indirection, is_const, ffi_index) ==
  [name |-> name, cpp_type |-> cpp_type, indirection |-> indirection,
   is_const |-> is_const, ffi_index |-> ffi_index]

\* The module of the methods handed to the overload resolver.
OverloadModule == << <<"q","c">>, <<"m">> >>

\* The scopes the methods of one call may be in: free functions of the module
\* or methods of the class T.
OverloadScopes ==
  { [kind |-> "Free", target_type |-> <<>>],
    [kind |-> "Impl", target_type |-> OverloadModule \o << <<"T">> >>] }

\* The part of generate_rust_single_method that fills RustSingleMethod:
\* is_unsafe is set when an argument is an unsafe argument.
single_method(c_name, arguments) ==
  [c_name    |-> c_name,
   name      |-> OverloadModule \o << <<"f">> >>,
   arguments |-> arguments,
   is_unsafe |-> \E i \in DOMAIN arguments : is_unsafe_argument(arguments[i])]

ArgSelfConst == Arg(SelfName, "const T", "Ref", TRUE, 0)

ArgSelfMut == Arg(SelfName, "T", "Ref", FALSE, 0)

ArgSelfValue == Arg(SelfName, "QFlags", "None", FALSE, 0)

OverloadMethodPool ==
  { single_method(<<"f","_","0">>, <<>>),
    single_method(<<"f","_","i","n","t">>, <<Arg(<<"a">>, "int", "None", FALSE, 0)>>),
    single_method(<<"f","_","q","i","n","t","3","2">>, <<Arg(<<"a">>, "qint32", "None", FALSE, 0)>>),
    single_method(<<"f","_","r","e","f">>, <<Arg(<<"b">>, "QB", "Ref", TRUE, 0)>>),
    single_method(<<"f","_","p","t","r">>, <<Arg(<<"p">>, "int*", "Ptr", FALSE, 0)>>),
    single_method(<<"f","_","p","t","r","2">>, <<Arg(<<"q">>, "int*", "Ptr", FALSE, 0)>>),
    single_method(<<"f","_","m","a","r","k","e","r","_","i","n","t">>, <<Arg(MarkerName, "int", "None", FALSE, 0)>>),
    single_method(<<"f","_","m","a","r","k","e","r","_","q","i","n","t","3","2">>, <<Arg(MarkerName, "qint32", "None", FALSE, 0)>>),
    single_method(<<"T","_","f","_","c","o","n","s","t">>, <<ArgSelfConst>>),
    single_method(<<"T","_","f","_","m","u","t">>, <<ArgSelfMut>>),
    single_method(<<"T","_","f","_","c","o","n","s","t","_","i","n","t">>, <<ArgSelfConst, Arg(<<"a">>, "int", "None", FALSE, 1)>>),
    single_method(<<"T","_","f","_","v","a","l","u","e">>, <<ArgSelfValue>>) }

\* The methods handed to one call, in any order, no method twice.
OverloadInputs ==
  UNION { { s \in [1..n -> OverloadMethodPool] : \A i, j \in 1..n : i # j => s[i] # s[j] }
          : n \in 1..MaxMethods }

(***************************************************************************)
(* Ordering of strings and names (String::cmp, Vec<String>::cmp)           *)
(***************************************************************************)
\* The characters of the model's strings in the order of their code points.
AsciiOrder ==
  <<".", "0","1","2","3","4","5","6","7","8","9", ":",
    "A","B","C","D","E","F","G","H","I","J","K","L","M",
    "N","O","P","Q","R","S","T","U","V","W","X","Y","Z", "_",
    "a","b","c","d","e","f","g","h","i","j","k","l","m",
    "n","o","p","q","r","s","t","u","v","w","x","y","z">>

CharOrd(c) == CHOOSE i \in DOMAIN AsciiOrder : AsciiOrder[i] = c

\* a < b for two strings, or for two vectors of Ord values compared with `lt`.
RECURSIVE StrLess(_, _)
StrLess(a, b) ==
  IF b = <<>> THEN FALSE
  ELSE IF a = <<>> THEN TRUE
  ELSE IF Head(a) = Head(b) THEN StrLess(Tail(a), Tail(b))
  ELSE CharOrd(Head(a)) < CharOrd(Head(b))

\* a < b for two RustName values: their parts compared as Vec<String>.
RECURSIVE NameLess(_, _)
NameLess(a, b) ==
  IF b = <<>> THEN FALSE
  ELSE IF a = <<>> THEN TRUE
  ELSE IF Head(a) = Head(b) THEN NameLess(Tail(a), Tail(b))
  ELSE StrLess(Head(a), Head(b))

\* One step of a stable sort of [key, val] records by a RustName key: x goes
\* after every element whose key is not greater.
RECURSIVE InsertByName(_, _)
InsertByName(sorted, x) ==
  IF sorted = <<>> THEN <<x>>
  ELSE IF NameLess(x.key, Head(sorted).key) THEN <<x>> \o sorted
  ELSE <<Head(sorted)>> \o InsertByName(Tail(sorted), x)

RECURSIVE SortByName(_)
SortByName(s) ==
  IF s = <<>> THEN <<>>
  ELSE InsertByName(SortByName(SubSeq(s, 1, Len(s) - 1)), s[Len(s)])

\* slice::sort_by with the comparison of the keys `key[i]` of the elements s[i].
SortedBy(s, key) ==
  LET sorted == SortByName([i \in DOMAIN s |-> [key |-> key[i], val |-> s[i]]])
  IN  [i \in DOMAIN sorted |-> sorted[i].val]

(***************************************************************************)
(* Target names                                                            *)
(***************************************************************************)
\* str::split("::").collect()
RECURSIVE SplitColons(_, _)
SplitColons(s, word) ==
  IF s = <<>> THEN <<word>>
  ELSE IF Len(s) >= 2 /\ s[1] = ":" /\ s[2] = ":"
       THEN <<word>> \o SplitColons(SubSeq(s, 3, Len(s)), <<>>)
       ELSE SplitColons(Tail(s), Append(word, Head(s)))

\* remove_prefix_and_convert_case without the look at the second word.
remove_prefix_and_convert_case_any_second_word(s, case, prefixes_to_remove) ==
  LET words == WordIterator(s)
      parts == IF /\ Len(words) > 1
                  /\ \E p \in DOMAIN prefixes_to_remove : prefixes_to_remove[p] = words[1]
               THEN Tail(words)
               ELSE words
  IN  IF case = "Snake" THEN words_to_snake_case(parts) ELSE words_to_class_case(parts)

\* remove_prefix_and_convert_case; case is "Snake" or "Class".
remove_prefix_and_convert_case(s, case, prefixes_to_remove) ==
  LET words == WordIterator(s)
      parts == IF /\ Len(words) > 1
                  /\ ~StartsWithDigit(words[2])
                  /\ \E p \in DOMAIN prefixes_to_remove : prefixes_to_remove[p] = words[1]
               THEN Tail(words)
               ELSE words
  IN  IF case = "Snake" THEN words_to_snake_case(parts) ELSE words_to_class_case(parts)

\* str::find('.') and the slice before it
BeforeDot(r) ==
  IF \E i \in DOMAIN r : r[i] = "."
  THEN SubSeq(r, 1, (CHOOSE i \in DOMAIN r : r[i] = "." /\ \A j \in 1..(i - 1) : r[j] # ".") - 1)
  ELSE r

include_file_to_module_name(include_file, prefixes_to_remove) ==
  remove_prefix_and_convert_case(BeforeDot(include_file), "Snake", prefixes_to_remove)

(***************************************************************************)
(* RustGeneratorInputData: the fixed part of the input of a run            *)
(***************************************************************************)
crate_name == <<"q","c">>

prefixes_to_remove == << <<"q">>, <<"Q">>, <<"Q","t">> >>

filtered_namespaces == << <<"d","e","t","a","i","l">> >>

\* CppTypeClassBase
ClassBase(name, template_arguments) ==
  [name |-> name, template_arguments |-> template_arguments]

\* CppType: base kind ("Numeric", "Class", "Enum", "Void"), name and template
\* arguments of a class, indirection ("None", "Ptr", "Ref") and constness.
\* `text` is the C++ spelling that CppType equality and can_be_the_same_as read.
CppType(text, kind, name, template_arguments, indirection, is_const) ==
  [text |-> text, kind |-> kind, name |-> name,
   template_arguments |-> template_arguments,
   indirection |-> indirection, is_const |-> is_const]

\* A type wrapper of a dependency crate (dependency_types).
dependency_types ==
  << [cpp_name |-> <<"Q","D","e","p">>, cpp_template_arguments |-> None, kind |-> "Struct",
      rust_name |-> << <<"d","e","p">>, <<"d","e","p">>, <<"D","e","p">> >>, values |-> <<>>,
      size_const_name |-> FALSE] >>

(***************************************************************************)
(* The type registry                                                       *)
(***************************************************************************)
\* find_type_info with the predicate of ffi_type for a class: the own
\* registry first, then the dependencies; <<>> when nothing matches.
find_class_info(processed, name, template_arguments) ==
  LET all == processed \o dependency_types
      hit(i) == /\ all[i].cpp_name = name
                /\ all[i].cpp_template_arguments = template_arguments
  IN  IF \E i \in DOMAIN all : hit(i)
      THEN <<all[CHOOSE i \in DOMAIN all : hit(i) /\ \A j \in 1..(i - 1) : ~hit(j)]>>
      ELSE <<>>

\* find_type_info with the predicate of ffi_type for an enum: the name alone.
find_enum_info(processed, name) ==
  LET all == processed \o dependency_types
      hit(i) == all[i].cpp_name = name
  IN  IF \E i \in DOMAIN all : hit(i)
      THEN <<all[CHOOSE i \in DOMAIN all : hit(i) /\ \A j \in 1..(i - 1) : ~hit(j)]>>
      ELSE <<>>

\* What ffi_type makes of the outcome of find_type_info: [ok, base].
type_base(info) ==
  IF info = <<>> THEN [ok |-> FALSE, base |-> <<>>]
  ELSE [ok |-> TRUE, base |-> info[1].rust_name]

\* ffi_type: [ok, base], base the Rust name of the type; ok = FALSE for
\* "type has no Rust equivalent".
ffi_type(processed, t) ==
  CASE t.kind = "Void" -> [ok |-> TRUE, base |-> <<>>]
    [] t.kind = "Numeric" -> [ok |-> TRUE, base |-> << <<"l","i","b","c">>, <<"c","_","i","n","t">> >>]
    [] t.kind = "Enum" -> type_base(find_enum_info(processed, t.name))
    [] OTHER -> type_base(find_class_info(processed, t.name, t.template_arguments))

\* The part of complete_type after the call of ffi_type, whose result is `ffi`.
complete_type_conversion(ffi, t, meaning, is_template_argument) ==
  IF ~ffi.ok THEN [ok |-> FALSE, base |-> <<>>, indirection |-> "None", is_const |-> FALSE]
  ELSE IF meaning = "This"
  THEN [ok |-> TRUE, base |-> ffi.base, indirection |-> "Ref", is_const |-> t.is_const]
  ELSE IF t.kind = "Class" /\ t.indirection = "None"
  THEN [ok |-> TRUE, base |-> ffi.base,
        indirection |-> IF is_template_argument THEN "None" ELSE "Ref",
        is_const |-> TRUE]
  ELSE [ok |-> TRUE, base |-> ffi.base, indirection |-> t.indirection,
        is_const |-> t.is_const]

\* complete_type: [ok, base, indirection, is_const] of the Rust API type.
\* meaning is "This", "Argument" or "ReturnValue".
complete_type(processed, t, meaning, is_template_argument) ==
  complete_type_conversion(ffi_type(processed, t), t, meaning, is_template_argument)

\* RustType::caption of a type named by `base`: its last name, snake case.
rust_type_caption(base) == to_snake_case(base[Len(base)])

\* calc_top_module_names: header -> RustName of its top level module.
calc_top_module_names(include_files) ==
  [h \in include_files |->
     <<crate_name, include_file_to_module_name(h, prefixes_to_remove)>>]

\* Parts of the namespaces of a name that are not filtered, in snake case.
RECURSIVE namespace_parts(_)
namespace_parts(split_parts) ==
  IF split_parts = <<>> THEN <<>>
  ELSE IF \E i \in DOMAIN filtered_namespaces : filtered_namespaces[i] = Head(split_parts)
       THEN namespace_parts(Tail(split_parts))
       ELSE <<remove_prefix_and_convert_case(Head(split_parts), "Snake", prefixes_to_remove)>>
            \o namespace_parts(Tail(split_parts))

\* rust_name_of_parts without the special case of a module named like the
\* first namespace.
rust_name_of_parts_without_collapse(top, split_parts, include_file, is_function) ==
  IF include_file \notin DOMAIN top THEN [ok |-> FALSE, parts |-> <<>>]
  ELSE [ok |-> TRUE,
        parts |-> top[include_file]
                  \o (IF include_file = <<"s","l","o","t","s">> THEN << <<"r","a","w">> >> ELSE <<>>)
                  \o namespace_parts(SubSeq(split_parts, 1, Len(split_parts) - 1))
                  \o <<remove_prefix_and_convert_case(
                         split_parts[Len(split_parts)],
                         IF is_function THEN "Snake" ELSE "Class",
                         prefixes_to_remove)>>]

\* The part of calculate_rust_name after the name was split at "::".
rust_name_of_parts(top, split_parts, include_file, is_function) ==
  IF include_file \notin DOMAIN top THEN [ok |-> FALSE, parts |-> <<>>]
  ELSE
    LET parts == top[include_file]
                 \o (IF include_file = <<"s","l","o","t","s">> THEN << <<"r","a","w">> >> ELSE <<>>)
                 \o namespace_parts(SubSeq(split_parts, 1, Len(split_parts) - 1))
    IN  [ok |-> TRUE,
         parts |-> (IF Len(parts) > 2 /\ parts[2] = parts[3]
                    THEN SubSeq(parts, 1, 2) \o SubSeq(parts, 4, Len(parts))
                    ELSE parts)
                   \o <<remove_prefix_and_convert_case(
                          split_parts[Len(split_parts)],
                          IF is_function THEN "Snake" ELSE "Class",
                          prefixes_to_remove)>>]

\* calculate_rust_name without an operator: [ok, parts].
calculate_rust_name(top, name, include_file, is_function) ==
  rust_name_of_parts(top, SplitColons(name, <<>>), include_file, is_function)

(***************************************************************************)
(* calc_processed_types                                                    *)
(***************************************************************************)
LogEntry(kind, subject) == [kind |-> kind, subject |-> subject]

RegistryEntry(cpp_name, cpp_template_arguments, kind, rust_name, values, size_const_name) ==
  [cpp_name |-> cpp_name, cpp_template_arguments |-> cpp_template_arguments,
   kind |-> kind, rust_name |-> rust_name, values |-> values,
   size_const_name |-> size_const_name]

\* The body of the first loop of calc_processed_types for one parsed type,
\* with the Rust name and the enum variants computed for it.
direct_type(acc, type_info, rust_name, values) ==
  IF type_info.kind = "Class" /\ type_info.is_template THEN acc
  ELSE IF ~rust_name.ok THEN [acc EXCEPT !.ok = FALSE]
  ELSE IF type_info.kind = "Class"
  THEN IF type_info.allocation_place = "Err"
       THEN [acc EXCEPT !.log = Append(@, LogEntry("cant_process_type",
                                                  ClassBase(type_info.name, None)))]
       ELSE [acc EXCEPT !.result =
               Append(@, RegistryEntry(type_info.name, None, "Struct", rust_name.parts,
                                       <<>>, type_info.allocation_place = "Stack"))]
  ELSE IF values.panicked THEN [acc EXCEPT !.panicked = TRUE]
  ELSE [acc EXCEPT !.result =
          Append(@, RegistryEntry(type_info.name, None, "Enum", rust_name.parts,
                                  values.variants, FALSE))]

\* The first loop of calc_processed_types over the parsed types:
\* [ok, panicked, result, log].  A class template is left to the second phase,
\* a class without allocation place is logged and left out.
RECURSIVE direct_types(_, _, _, _)
direct_types(top, types, enum_order, acc) ==
  IF types = <<>> \/ ~acc.ok \/ acc.panicked THEN acc
  ELSE direct_types(top, Tail(types), enum_order,
         direct_type(acc, Head(types),
                     calculate_rust_name(top, Head(types).name, Head(types).include_file, FALSE),
                     prepare_enum_values(Head(types).values, enum_order)))

\* CppData::find_type_info by name over the parsed types: <<info>> or <<>>.
find_cpp_type_info(types, name) ==
  IF \E i \in DOMAIN types : types[i].name = name
  THEN <<types[CHOOSE i \in DOMAIN types :
                 types[i].name = name /\ \A j \in 1..(i - 1) : types[j].name # name]>>
  ELSE <<>>

\* The body of the loop that collects unnamed_items for the instantiations `ti`
\* of one template, with its type info and the Rust name of the template.
unnamed_items_step(acc, ti, type_info, rust_name) ==
  IF type_info = <<>> THEN [acc EXCEPT !.ok = FALSE]
  ELSE IF ti.class_name = <<"Q","F","l","a","g","s">> THEN acc
  ELSE IF ti.instantiations # <<>> /\ ~rust_name.ok THEN [acc EXCEPT !.ok = FALSE]
  ELSE [acc EXCEPT !.items =
          @ \o [i \in DOMAIN ti.instantiations |->
                  RegistryEntry(ti.class_name, Some(ti.instantiations[i]), "Struct",
                                rust_name.parts, <<>>, FALSE)]]

\* The include file of the type info that find_type_info returned.
include_file_of(type_info) == IF type_info = <<>> THEN <<>> ELSE type_info[1].include_file

\* The loop that collects unnamed_items from the template instantiations:
\* [ok, items]; ok = FALSE for "type info not found".
RECURSIVE unnamed_items_of(_, _, _, _)
unnamed_items_of(top, types, instantiations, acc) ==
  IF instantiations = <<>> \/ ~acc.ok THEN acc
  ELSE unnamed_items_of(top, types, Tail(instantiations),
         unnamed_items_step(
           acc, Head(instantiations),
           find_cpp_type_info(types, Head(instantiations).class_name),
           calculate_rust_name(
             top, Head(instantiations).class_name,
             include_file_of(find_cpp_type_info(types, Head(instantiations).class_name)),
             FALSE)))

\* The name that template_final_name builds from the completed argument types.
template_name_from(name, completed) ==
  IF \E i \in DOMAIN completed : ~completed[i].ok THEN [ok |-> FALSE, parts |-> <<>>]
  ELSE [ok |-> TRUE,
        parts |-> SubSeq(name, 1, Len(name) - 1)
                  \o <<name[Len(name)]
                       \o Concat([i \in DOMAIN completed |->
                                    to_class_case(rust_type_caption(completed[i].base))])>>]

\* The closure template_final_name: [ok, parts].  The name of the template
\* followed by the class-case captions of the argument types, which must all
\* resolve against the types registered so far.
template_final_name(result, item) ==
  IF item.cpp_template_arguments = None THEN [ok |-> FALSE, parts |-> <<>>]
  ELSE template_name_from(
         item.rust_name,
         [i \in DOMAIN item.cpp_template_arguments[2] |->
            complete_type(result, item.cpp_template_arguments[2][i], "Argument", TRUE)])

\* type_allocation_place of a class name: the place the parsed data record for
\* it, "Err" for a class that is not in the parsed data.
type_allocation_place(types, name) ==
  LET info == find_cpp_type_info(types, name)
  IN  IF info = <<>> THEN "Err" ELSE info[1].allocation_place

\* template_item that counts a failed name as a success of the pass.
template_item_failure_counts(acc, r, name, place) ==
  IF ~name.ok THEN [acc EXCEPT !.unnamed_items_new = Append(@, r), !.any_success = TRUE]
  ELSE IF place = "Err"
  THEN [acc EXCEPT !.log = Append(@, LogEntry("cant_process_type",
                             ClassBase(r.cpp_name, r.cpp_template_arguments)))]
  ELSE [acc EXCEPT !.result = Append(@, [r EXCEPT !.rust_name = name.parts,
                                                  !.size_const_name = place = "Stack"]),
                   !.any_success = TRUE]

\* The body of the for loop of one pass for the item r, with the outcome of
\* template_final_name and the allocation place of its class.
template_item(acc, r, name, place) ==
  IF ~name.ok THEN [acc EXCEPT !.unnamed_items_new = Append(@, r)]
  ELSE IF place = "Err"
  THEN [acc EXCEPT !.log = Append(@, LogEntry("cant_process_type",
                             ClassBase(r.cpp_name, r.cpp_template_arguments)))]
  ELSE [acc EXCEPT !.result = Append(@, [r EXCEPT !.rust_name = name.parts,
                                                  !.size_const_name = place = "Stack"]),
                   !.any_success = TRUE]

\* The body of one pass of the while loop: the for loop over unnamed_items,
\* [result, unnamed_items_new, any_success, log].
RECURSIVE template_pass(_, _, _)
template_pass(types, pending, acc) ==
  IF pending = <<>> THEN acc
  ELSE template_pass(types, Tail(pending),
         template_item(acc, Head(pending),
                       template_final_name(acc.result, Head(pending)),
                       type_allocation_place(types, Head(pending).cpp_name)))

(***************************************************************************)
(* Methods                                                                 *)
(***************************************************************************)
IsMemberOf(method, class_type) ==
  /\ method.class_membership # None
  /\ method.class_membership[2].class_type = class_type

\* method_rust_name for a method that is neither constructor nor operator:
\* [ok, parts].
method_rust_name(top, method) ==
  IF method.class_membership = None
  THEN calculate_rust_name(top, method.name, method.include_file, TRUE)
  ELSE [ok |-> TRUE, parts |-> <<to_snake_case(method.name)>>]

\* The arguments of the C signature that are not the return value: `this`
\* of a non-static member first, then the arguments of the C++ method.
c_signature_arguments(method) ==
  LET info == method.class_membership[2]
      this == [name |-> <<"t","h","i","s","_","p","t","r">>, meaning |-> "This",
               argument_type |->
                 CppType(IF info.is_const THEN "const class*" ELSE "class*", "Class",
                         info.class_type.name, info.class_type.template_arguments,
                         "Ptr", info.is_const)]
      rest == [i \in DOMAIN method.arguments |->
                 [name |-> method.arguments[i].name, meaning |-> "Argument",
                  argument_type |-> method.arguments[i].argument_type]]
  IN  IF method.class_membership # None /\ ~info.is_static THEN <<this>> \o rest ELSE rest

\* The arguments of the Rust method, made of the arguments of the C signature
\* and their completed types.
rust_arguments(c_args, completed) ==
  [i \in DOMAIN c_args |->
     Arg(IF c_args[i].meaning = "This" THEN SelfName
         ELSE sanitize_rust_identifier(to_snake_case(c_args[i].name)),
         c_args[i].argument_type.text,
         completed[i].indirection, completed[i].is_const, i - 1)]

\* The RustSingleMethod that generate_rust_single_method assembles.
rust_single_method(c_name, name, arguments) ==
  [c_name    |-> c_name,
   name      |-> name,
   arguments |-> arguments,
   is_unsafe |-> \E i \in DOMAIN arguments : is_unsafe_argument(arguments[i])]

\* The part of generate_rust_single_method after its calls of complete_type
\* and of method_rust_name.
single_method_from(method, c_args, completed, return_type, name) ==
  IF (\E i \in DOMAIN c_args : ~completed[i].ok) \/ ~return_type.ok \/ ~name.ok
  THEN [ok |-> FALSE, method |-> <<>>]
  ELSE [ok |-> TRUE,
        method |-> rust_single_method(method.c_name, name.parts,
                                      rust_arguments(c_args, completed))]

\* The completed types of the arguments of a C signature.
completed_arguments(processed, c_args) ==
  [i \in DOMAIN c_args |->
     complete_type(processed, c_args[i].argument_type, c_args[i].meaning, FALSE)]

\* generate_rust_single_method: [ok, method]; ok = FALSE when complete_type
\* fails for an argument or for the return type, or the name cannot be built.
generate_rust_single_method(processed, top, method) ==
  single_method_from(
    method, c_signature_arguments(method),
    completed_arguments(processed, c_signature_arguments(method)),
    complete_type(processed, method.return_type, "ReturnValue", FALSE),
    method_rust_name(top, method))

\* final_last_name that never appends the caption.
final_last_name_without_caption(last_name, self_arg_kind_caption) == last_name

\* The last name of a method made from a bucket: the name of its first
\* method, followed by the caption of the bucket if it has one.
final_last_name(last_name, self_arg_kind_caption) ==
  IF self_arg_kind_caption = None THEN last_name
  ELSE words_to_snake_case(<<last_name, self_arg_kind_caption[2]>>)

\* The name of the parameters trait of an overloaded method.
trait_name(scope, last_name) ==
  IF scope.kind = "Impl"
  THEN scope.target_type[Len(scope.target_type)]
       \o to_class_case(last_name) \o <<"A","r","g","s">>
  ELSE to_class_case(last_name) \o <<"A","r","g","s">>

\* The RustMethod that generate_final_method makes of the sorted bucket, with
\* the module of the method and its last name.
final_method(sorted, scope, module, last_name) ==
  [name      |-> module \o <<sanitize_rust_identifier(last_name)>>,
   scope     |-> scope,
   variants  |-> [i \in DOMAIN sorted |-> sorted[i].c_name],
   is_unsafe |-> sorted[1].is_unsafe,
   trait     |-> IF Len(sorted) > 1
                 THEN Some(module \o << <<"o","v","e","r","l","o","a","d","i","n","g">>, trait_name(scope, last_name) >>)
                 ELSE None]

\* The part of generate_final_method after the sort of the bucket.
final_method_of_sorted(sorted, scope, self_arg_kind_caption) ==
  final_method(sorted, scope,
               SubSeq(sorted[1].name, 1, Len(sorted[1].name) - 1),
               final_last_name(sorted[1].name[Len(sorted[1].name)], self_arg_kind_caption))

\* generate_final_method: the RustMethod made from one bucket.  `trait` is the
\* name of the parameters trait of an overloaded method.
generate_final_method(filtered_methods, scope, self_arg_kind_caption) ==
  final_method_of_sorted(
    SortedBy(filtered_methods,
             [i \in DOMAIN filtered_methods |-> <<filtered_methods[i].c_name>>]),
    scope, self_arg_kind_caption)

\* The body of the loop of step 1 for one method, with the outcome r of
\* generate_rust_single_method.
single_rust_method_step(acc, method, r) ==
  IF r.ok THEN [acc EXCEPT !.singles = Append(@, r.method)]
  ELSE [acc EXCEPT !.log = Append(@, LogEntry("failed_to_generate", method.c_name))]

\* Step 1 of process_all_sibling_functions: [singles, log].
RECURSIVE single_rust_methods_of(_, _, _, _)
single_rust_methods_of(processed, top, methods, acc) ==
  IF methods = <<>> THEN acc
  ELSE single_rust_methods_of(processed, top, Tail(methods),
         single_rust_method_step(acc, Head(methods),
           generate_rust_single_method(processed, top, Head(methods))))

\* The body of the loop of step 2 for one group, with the outcome of
\* overload_functions for it.
final_methods_step(acc, scope, overloaded) ==
  IF ~overloaded.ok THEN [acc EXCEPT !.ok = FALSE]
  ELSE [acc EXCEPT !.methods =
          @ \o [b \in DOMAIN overloaded.buckets |->
                  generate_final_method(overloaded.buckets[b], scope, overloaded.names[b])]]

\* Step 2 of process_all_sibling_functions: the groups of one last name each,
\* visited in the order `keys`; [ok, methods].
RECURSIVE final_methods_of(_, _, _, _)
final_methods_of(singles, keys, scope, acc) ==
  IF keys = <<>> \/ ~acc.ok THEN acc
  ELSE final_methods_of(singles, Tail(keys), scope,
         final_methods_step(acc, scope,
           overload_functions(
             SelectSeq(singles, LAMBDA m : m.name[Len(m.name)] = Head(keys)))))

\* The keys of the HashMap single_rust_methods in the order `name_order`.
single_method_keys(singles, name_order) ==
  SelectSeq(name_order,
            LAMBDA k : \E i \in DOMAIN singles : singles[i].name[Len(singles[i].name)] = k)

\* The traits of the overloaded methods among `methods`.
overloading_types_of(with_trait) ==
  [i \in DOMAIN with_trait |-> with_trait[i].trait[2]]

\* The end of process_all_sibling_functions: the methods sorted by last name.
sibling_functions_result(step2, log) ==
  [ok |-> step2.ok,
   methods |-> SortedBy(step2.methods,
                        [i \in DOMAIN step2.methods |->
                           <<step2.methods[i].name[Len(step2.methods[i].name)]>>]),
   overloading_types |->
     overloading_types_of(SelectSeq(step2.methods, LAMBDA m : m.trait # None)),
   log |-> log]

\* process_all_sibling_functions after step 1.
sibling_functions_of_singles(step1, scope, name_order) ==
  sibling_functions_result(
    final_methods_of(step1.singles, single_method_keys(step1.singles, name_order),
                     scope, [ok |-> TRUE, methods |-> <<>>]),
    step1.log)

\* process_all_sibling_functions for methods that are neither destructors nor
\* casts: [ok, methods, overloading_types, log].  `name_order` is the order in
\* which the HashMap single_rust_methods yields its keys.
process_all_sibling_functions(processed, top, methods, scope, name_order) ==
  sibling_functions_of_singles(
    single_rust_methods_of(processed, top, methods, [singles |-> <<>>, log |-> <<>>]),
    scope, name_order)

(***************************************************************************)
(* Types and modules                                                       *)
(***************************************************************************)
\* The signal and slot receivers of a class as generate_type collects them in
\* qt_receivers_by_name and flattens them again; `receiver_order` is the order
\* in which that HashMap yields its keys.  Receivers sharing a name are renamed
\* with the captions of their arguments; the receivers of the model have none.
qt_receivers_of(class_type, parser_methods, receiver_order) ==
  LET own == SelectSeq(parser_methods,
               LAMBDA m : /\ IsMemberOf(m, class_type)
                          /\ (m.class_membership[2].is_signal
                              \/ m.class_membership[2].is_slot))
      keys == SelectSeq(receiver_order,
                LAMBDA k : \E i \in DOMAIN own : own[i].name = k)
      declaration(m, alone) ==
        LET name == IF alone THEN m.name ELSE to_snake_case(m.name) \o <<"_">>
        IN  [type_name |-> to_class_case(name),
             method_name |-> to_snake_case(name),
             receiver_type |-> IF m.class_membership[2].is_signal THEN "Signal" ELSE "Slot",
             original_method_name |-> m.name]
      group(k) == SelectSeq(own, LAMBDA m : m.name = k)
  IN  Concat([i \in DOMAIN keys |->
                [j \in DOMAIN group(keys[i]) |->
                   declaration(group(keys[i])[j], Len(group(keys[i])) = 1)]])

\* The RustTypeDeclaration of a registered type.
type_declaration(info, rust_methods, qt_receivers) ==
  [name |-> info.rust_name, kind |-> info.kind, cpp_type_name |-> info.cpp_name,
   cpp_template_arguments |-> info.cpp_template_arguments,
   methods |-> rust_methods, qt_receivers |-> qt_receivers]

\* The class has QObject among its bases (CppData::inherits).
inherits(cpp_info) == cpp_info # <<>> /\ cpp_info[1].inherits_qobject

\* The result of generate_type for a class, with the outcome of
\* process_all_sibling_functions for its methods.
class_type_result(info, functions_result, qt_receivers, tmp_cpp_methods) ==
  [ok |-> functions_result.ok,
   main_type |-> type_declaration(info, functions_result.methods, qt_receivers),
   overloading_types |-> functions_result.overloading_types,
   cpp_methods |-> tmp_cpp_methods,
   log |-> functions_result.log]

\* generate_type for the class `class_type`.
generate_class_type(processed, top, types, info, class_type, methods, parser_methods, name_order, receiver_order) ==
  class_type_result(
    info,
    process_all_sibling_functions(
      processed, top, SelectSeq(methods, LAMBDA m : IsMemberOf(m, class_type)),
      [kind |-> "Impl", target_type |-> info.rust_name], name_order),
    IF inherits(find_cpp_type_info(types, info.cpp_name))
    THEN qt_receivers_of(class_type, parser_methods, receiver_order)
    ELSE <<>>,
    SelectSeq(methods, LAMBDA m : ~IsMemberOf(m, class_type)))

\* generate_type: [ok, main_type, overloading_types, cpp_methods, log].
generate_type(processed, top, types, info, methods, parser_methods, name_order, receiver_order) ==
  IF info.kind = "Enum"
  THEN [ok |-> TRUE,
        main_type |-> [type_declaration(info, <<>>, <<>>) EXCEPT !.cpp_template_arguments = None],
        overloading_types |-> <<>>, cpp_methods |-> methods, log |-> <<>>]
  ELSE generate_class_type(processed, top, types, info,
                           ClassBase(info.cpp_name, info.cpp_template_arguments),
                           methods, parser_methods, name_order, receiver_order)

\* RustName::includes: `name` lies in the module or below it.
includes(module_name, name) ==
  /\ Len(name) > Len(module_name)
  /\ SubSeq(name, 1, Len(module_name)) = module_name

\* RustName::includes_directly: `name` lies in the module itself.
includes_directly(module_name, name) ==
  /\ includes(module_name, name)
  /\ Len(name) = Len(module_name) + 1

\* The body of the loop of generate_module over the registered types for a
\* type of the module itself, with the outcome r of generate_type.
module_type_step(acc, r) ==
  IF ~r.ok THEN [acc EXCEPT !.ok = FALSE]
  ELSE [acc EXCEPT !.types = Append(@, r.main_type),
                   !.overloading_types = @ \o r.overloading_types,
                   !.cpp_methods = r.cpp_methods,
                   !.log = @ \o r.log]

\* The loop of generate_module over the registered types:
\* [ok, types, overloading_types, direct_submodules, cpp_methods, log].
RECURSIVE module_types(_, _, _, _, _, _, _, _, _)
module_types(processed, top, types, todo, module_name, parser_methods, name_order, receiver_order, acc) ==
  IF todo = <<>> \/ ~acc.ok THEN acc
  ELSE module_types(processed, top, types, Tail(todo), module_name, parser_methods,
                    name_order, receiver_order,
         IF includes_directly(module_name, Head(todo).rust_name)
         THEN module_type_step(acc,
                generate_type(processed, top, types, Head(todo), acc.cpp_methods,
                              parser_methods, name_order, receiver_order))
         ELSE IF includes(module_name, Head(todo).rust_name)
         THEN [acc EXCEPT !.direct_submodules =
                 @ \cup {Head(todo).rust_name[Len(module_name) + 1]}]
         ELSE acc)

\* module_function_step that leaves a free function it takes for the module
\* in the list of the pending methods.
module_function_step_keeping_taken(acc, method, module_name, rust_name) ==
  IF method.class_membership # None
  THEN [acc EXCEPT !.cpp_methods = Append(@, method)]
  ELSE IF ~rust_name.ok THEN [acc EXCEPT !.ok = FALSE]
  ELSE IF includes_directly(module_name, rust_name.parts)
  THEN [acc EXCEPT !.good_methods = Append(@, method), !.cpp_methods = Append(@, method)]
  ELSE IF includes(module_name, rust_name.parts)
  THEN [acc EXCEPT !.direct_submodules = @ \cup {rust_name.parts[Len(module_name) + 1]},
                   !.cpp_methods = Append(@, method)]
  ELSE [acc EXCEPT !.cpp_methods = Append(@, method)]

\* The body of the loop of generate_module over the remaining methods for one
\* method, with the Rust name of a free function.
module_function_step(acc, method, module_name, rust_name) ==
  IF method.class_membership # None
  THEN [acc EXCEPT !.cpp_methods = Append(@, method)]
  ELSE IF ~rust_name.ok THEN [acc EXCEPT !.ok = FALSE]
  ELSE IF includes_directly(module_name, rust_name.parts)
  THEN [acc EXCEPT !.good_methods = Append(@, method)]
  ELSE IF includes(module_name, rust_name.parts)
  THEN [acc EXCEPT !.direct_submodules = @ \cup {rust_name.parts[Len(module_name) + 1]},
                   !.cpp_methods = Append(@, method)]
  ELSE [acc EXCEPT !.cpp_methods = Append(@, method)]

\* The loop of generate_module over the remaining methods, which takes the
\* free functions of the module: [ok, good_methods, direct_submodules, cpp_methods].
RECURSIVE module_functions(_, _, _, _)
module_functions(top, todo, module_name, acc) ==
  IF todo = <<>> \/ ~acc.ok THEN acc
  ELSE module_functions(top, Tail(todo), module_name,
         module_function_step(
           acc, Head(todo), module_name,
           calculate_rust_name(top, Head(todo).name, Head(todo).include_file, TRUE)))

NoModule == <<>>

RECURSIVE generate_module(_, _, _, _, _, _, _)

\* The body of the loop of generate_module over its submodules, with the
\* outcome r of generate_module for one of them.
module_submodule_step(acc, r) ==
  IF ~r.ok THEN [acc EXCEPT !.ok = FALSE]
  ELSE [acc EXCEPT !.submodules = @ \o r.module,
                   !.cpp_methods = r.cpp_methods,
                   !.log = @ \o r.log]

\* The loop of generate_module over its submodules:
\* [ok, submodules, cpp_methods, log].
RECURSIVE module_submodules(_, _, _, _, _, _, _, _)
module_submodules(processed, top, types, parser_methods, module_name, todo, orders, acc) ==
  IF todo = <<>> \/ ~acc.ok THEN acc
  ELSE module_submodules(processed, top, types, parser_methods, module_name,
                         Tail(todo), orders,
         module_submodule_step(acc,
           generate_module(processed, top, types, parser_methods, acc.cpp_methods,
                           Append(module_name, Head(todo)), orders)))

\* The header of a top level module: the first header, in the order in which
\* top_module_names yields them, whose module it is.
cpp_header_of(top, module_name, headers) ==
  IF Len(module_name) = 2 /\ \E i \in DOMAIN headers : top[headers[i]] = module_name
  THEN Some(headers[CHOOSE i \in DOMAIN headers :
                      /\ top[headers[i]] = module_name
                      /\ \A j \in 1..(i - 1) : top[headers[j]] # module_name])
  ELSE None

in_slots(module_name) == Len(module_name) >= 2 /\ module_name[2] = <<"s","l","o","t","s">>

\* The documentation check of generate_module fails for a module below
\* "slots" other than "slots::raw".
unknown_slots_submodule(module_name) ==
  /\ in_slots(module_name)
  /\ ~(Len(module_name) = 3 /\ module_name[3] = <<"r","a","w">>)
  /\ Len(module_name) # 2

\* The module "overloading" that holds the parameter traits, if there are any.
overloading_module(sorted_types) ==
  IF sorted_types = <<>> THEN <<>>
  ELSE << [name |-> <<"o","v","e","r","l","o","a","d","i","n","g">>, doc |-> Some(<<"o","v","e","r","l","o","a","d","i","n","g">>),
           types |-> [i \in DOMAIN sorted_types |->
                        [name |-> sorted_types[i], kind |-> "MethodParametersTrait"]],
           functions |-> <<>>, submodules |-> <<>>] >>

\* The RustModule of generate_module, <<>> if it is empty.
module_of(module_name, doc, module_types_sorted, functions, submodules) ==
  IF module_types_sorted = <<>> /\ functions = <<>> /\ submodules = <<>>
  THEN NoModule
  ELSE << [name |-> module_name[Len(module_name)],
           doc |-> doc,
           types |-> module_types_sorted,
           functions |-> functions,
           submodules |-> SortedBy(submodules,
                                   [i \in DOMAIN submodules |-> <<submodules[i].name>>])] >>

module_failed(methods) ==
  [ok |-> FALSE, module |-> NoModule, cpp_methods |-> methods, log |-> <<>>]

\* The end of generate_module, with the outcomes t, f and s of its three loops
\* and that of process_all_sibling_functions for its free functions.
module_result(top, methods, module_name, orders, t, f, s, free_functions_result) ==
  IF unknown_slots_submodule(module_name) \/ ~t.ok \/ ~f.ok
     \/ ~s.ok \/ ~free_functions_result.ok
  THEN module_failed(methods)
  ELSE [ok |-> TRUE,
        module |->
          module_of(module_name,
                    IF in_slots(module_name) THEN Some(<<"s","l","o","t","s">>)
                    ELSE cpp_header_of(top, module_name, orders.headers),
                    SortedBy(t.types, [i \in DOMAIN t.types |-> t.types[i].name]),
                    free_functions_result.methods,
                    s.submodules
                    \o overloading_module(
                         SortedBy(t.overloading_types \o free_functions_result.overloading_types,
                                  t.overloading_types \o free_functions_result.overloading_types))),
        cpp_methods |-> s.cpp_methods,
        log |-> t.log \o s.log \o free_functions_result.log]

\* generate_module after the loop over the remaining methods.
module_after_functions(processed, top, types, parser_methods, methods, module_name, orders, t, f) ==
  module_result(
    top, methods, module_name, orders, t, f,
    module_submodules(processed, top, types, parser_methods, module_name,
                      SelectSeq(orders.submodules, LAMBDA n : n \in f.direct_submodules),
                      orders,
                      [ok |-> TRUE, submodules |-> <<>>,
                       cpp_methods |-> f.cpp_methods, log |-> <<>>]),
    process_all_sibling_functions(processed, top, f.good_methods,
                                  [kind |-> "Free", target_type |-> <<>>],
                                  orders.names))

\* generate_module after the loop over the registered types.
module_after_types(processed, top, types, parser_methods, methods, module_name, orders, t) ==
  module_after_functions(
    processed, top, types, parser_methods, methods, module_name, orders, t,
    module_functions(top, t.cpp_methods, module_name,
                     [ok |-> TRUE, good_methods |-> <<>>,
                      direct_submodules |-> t.direct_submodules,
                      cpp_methods |-> <<>>]))

\* generate_module: [ok, module, cpp_methods, log]; module is <<>> for an empty
\* module that is skipped.  `orders` holds the orders in which the hash
\* containers of the call yield their keys: headers (top_module_names),
\* submodules (direct_submodules), names (single_rust_methods) and receivers
\* (qt_receivers_by_name).
generate_module(processed, top, types, parser_methods, methods, module_name, orders) ==
  module_after_types(
    processed, top, types, parser_methods, methods, module_name, orders,
    module_types(processed, top, types, processed, module_name, parser_methods,
                 orders.names, orders.receivers,
                 [ok |-> TRUE, types |-> <<>>, overloading_types |-> <<>>,
                  direct_submodules |-> {}, cpp_methods |-> methods,
                  log |-> <<>>]))

(***************************************************************************)
(* Inputs of a run                                                         *)
(***************************************************************************)
MaxRunTypes == 2

MaxRunMethods == 2

MaxInstantiations == 2

\* CppTypeData with what CppData answers about the type: its allocation place
\* (type_allocation_place) and whether it inherits QObject (inherits).
TypeData(name, include_file, kind, is_template, allocation_place, inherits_qobject, values) ==
  [name |-> name, include_file |-> include_file, kind |-> kind,
   is_template |-> is_template, allocation_place |-> allocation_place,
   inherits_qobject |-> inherits_qobject, values |-> values]

FooH == <<"f","o","o",".","h">>

VecH == <<"v","e","c",".","h">>

TypeQFoo == TypeData(<<"Q","F","o","o">>, FooH, "Class", FALSE, "Heap", TRUE, <<>>)

TypeFoo == TypeData(<<"F","o","o">>, FooH, "Class", FALSE, "Stack", FALSE, <<>>)

\* A class of the namespace `detail`, which filtered_namespaces leaves out of
\* the Rust names.
TypeDetailFoo ==
  TypeData(<<"d","e","t","a","i","l",":",":","F","o","o">>, FooH, "Class", FALSE, "Heap", FALSE, <<>>)

TypeColor ==
  TypeData(<<"C","o","l","o","r">>, FooH, "Enum", FALSE, "Err", FALSE,
           << [name |-> <<"R","e","d">>, value |-> 0], [name |-> <<"G","r","e","e","n">>, value |-> 1] >>)

TypeQBad == TypeData(<<"Q","B","a","d">>, FooH, "Class", FALSE, "Err", FALSE, <<>>)

TypeQVec == TypeData(<<"Q","V","e","c">>, VecH, "Class", TRUE, "Heap", FALSE, <<>>)

\* The parsed types, in the order of the pool.
RunTypePool == <<TypeQFoo, TypeFoo, TypeDetailFoo, TypeColor, TypeQBad, TypeQVec>>

ArgQFoo == CppType("QFoo", "Class", <<"Q","F","o","o">>, None, "None", FALSE)

ArgMissing == CppType("Missing", "Class", <<"M","i","s","s","i","n","g">>, None, "None", FALSE)

ArgVecQFoo == CppType("QVec<QFoo>", "Class", <<"Q","V","e","c">>, Some(<<ArgQFoo>>), "None", FALSE)

\* Template argument lists of QVec that the parser may have found in use.
InstantiationPool == << <<ArgVecQFoo>>, <<ArgQFoo>>, <<ArgMissing>> >>

VoidType == CppType("void", "Void", <<>>, None, "None", FALSE)

Membership(class_type, is_const, is_signal) ==
  Some([class_type |-> class_type, is_const |-> is_const, is_static |-> FALSE,
        is_signal |-> is_signal, is_slot |-> FALSE])

\* CppAndFfiMethod: neither constructor, destructor, operator nor cast; it
\* returns nothing.
Method(c_name, name, include_file, class_membership, arguments) ==
  [c_name |-> c_name, name |-> name, include_file |-> include_file,
   class_membership |-> class_membership, arguments |-> arguments,
   return_type |-> VoidType]

ClassQFoo == ClassBase(<<"Q","F","o","o">>, None)

RunMethodPool ==
  << Method(<<"Q","F","o","o","_","b","a","r","_","c","o","n","s","t">>, <<"b","a","r">>, FooH, Membership(ClassQFoo, TRUE, FALSE), <<>>),
     Method(<<"Q","F","o","o","_","b","a","r">>, <<"b","a","r">>, FooH, Membership(ClassQFoo, FALSE, FALSE), <<>>),
     Method(<<"Q","F","o","o","_","b","a","r","M","u","t">>, <<"b","a","r","M","u","t">>, FooH, Membership(ClassQFoo, FALSE, FALSE), <<>>),
     Method(<<"Q","F","o","o","_","b","a","z">>, <<"b","a","z">>, FooH, Membership(ClassQFoo, FALSE, FALSE),
            << [name |-> <<"p">>,
                argument_type |-> CppType("Missing*", "Class", <<"M","i","s","s","i","n","g">>, None, "Ptr", FALSE)] >>),
     Method(<<"Q","B","a","d","_","r","u","n">>, <<"r","u","n">>, FooH, Membership(ClassBase(<<"Q","B","a","d">>, None), FALSE, FALSE), <<>>),
     Method(<<"C","o","l","o","r","_","x">>, <<"x">>, FooH, Membership(ClassBase(<<"C","o","l","o","r">>, None), TRUE, FALSE), <<>>),
     Method(<<"q","F","r","e","e">>, <<"q","F","r","e","e">>, FooH, None,
            << [name |-> <<"d">>,
                argument_type |-> CppType("QDep*", "Class", <<"Q","D","e","p">>, None, "Ptr", FALSE)] >>),
     Method(<<"n","s","_","h","e","l","p","e","r">>, <<"n","s",":",":","h","e","l","p","e","r">>, FooH, None, <<>>),
     Method(<<"Q","V","e","c","_","Q","F","o","o","_","s","i","z","e">>, <<"s","i","z","e">>, VecH,
            Membership(ClassBase(<<"Q","V","e","c">>, Some(<<ArgQFoo>>)), TRUE, FALSE), <<>>),
     Method(<<"v","e","c","_","s","w","a","p">>, <<"v","e","c","S","w","a","p">>, VecH, None, <<>>) >>

\* The methods of the parsed data that generate_type reads for the receivers:
\* two signals of QFoo.
parser_methods ==
  << Method(<<"Q","F","o","o","_","c","l","i","c","k","e","d">>, <<"c","l","i","c","k","e","d">>, FooH, Membership(ClassQFoo, FALSE, TRUE), <<>>),
     Method(<<"Q","F","o","o","_","p","r","e","s","s","e","d">>, <<"p","r","e","s","s","e","d">>, FooH, Membership(ClassQFoo, FALSE, TRUE), <<>>) >>

\* Subsequences of `pool` of at most n elements, in the order of the pool.
SubSeqsOf(pool, n) ==
  { SelectSeq(pool, LAMBDA x : x \in S) :
      S \in {T \in SUBSET {pool[i] : i \in DOMAIN pool} : Cardinality(T) <= n} }

\* Every order of the elements of a sequence without repetitions.
Permutations_of(s) ==
  { [i \in DOMAIN s |-> s[p[i]]] :
      p \in {q \in [DOMAIN s -> DOMAIN s] : \A i, j \in DOMAIN s : i # j => q[i] # q[j]} }

\* The elements of a set of strings as a sorted sequence (Vec::sort).
RECURSIVE SortedStrings(_)
SortedStrings(S) ==
  IF S = {} THEN <<>>
  ELSE LET least == CHOOSE x \in S : \A y \in S : y = x \/ StrLess(x, y)
       IN  <<least>> \o SortedStrings(S \ {least})

(***************************************************************************)
(* RustGeneratorInputData::run, step by step                               *)
(***************************************************************************)
NoRunResult == [status |-> "none", error |-> "", output |-> <<>>]

Failed(error) == [status |-> "Err", error |-> error, output |-> <<>>]

FreshRunState ==
  /\ top_module_names = <<>>
  /\ processed_types = <<>>
  /\ unnamed_items = <<>>
  /\ any_success = TRUE
  /\ passes = 0
  /\ cpp_methods = <<>>
  /\ module_names = <<>>
  /\ modules = <<>>
  /\ run_log = <<>>
  /\ run_result = NoRunResult

\* The generator of the next run is fresh.
FreshRunStateNext ==
  /\ top_module_names' = <<>>
  /\ processed_types' = <<>>
  /\ unnamed_items' = <<>>
  /\ any_success' = TRUE
  /\ passes' = 0
  /\ cpp_methods' = <<>>
  /\ module_names' = <<>>
  /\ modules' = <<>>
  /\ run_log' = <<>>
  /\ run_result' = NoRunResult

\* The variables of a run while another function is examined.
RunIdle ==
  /\ run_types = <<>>
  /\ run_instantiations = <<>>
  /\ run_methods = <<>>
  /\ FreshRunState
  /\ run_no = 0
  /\ first_result = NoRunResult

\* template_instantiations of the parsed data: the instantiations of QVec.
template_instantiations ==
  IF run_instantiations = <<>> THEN <<>>
  ELSE << [class_name |-> <<"Q","V","e","c">>, instantiations |-> run_instantiations] >>

\* CppDataWithDeps::all_include_files: the include files of the parsed types
\* and of the parsed methods.  The methods of cpp_ffi_headers are a separate
\* input of run(): the include file of one of them (vec_swap, of vec.h) need
\* not be among these.  include_file_base_name is the base name of the one
\* generated header, which holds all methods.
all_include_files ==
  {run_types[i].include_file : i \in DOMAIN run_types}
    \cup {parser_methods[i].include_file : i \in DOMAIN parser_methods}

include_file_base_name == FooH

\* The run stops and returns Err.
Abort(error) ==
  /\ run_result' = Failed(error)
  /\ pc' = "run_done"

\* run(): generator.top_module_names = generator.calc_top_module_names()?
CalcTopModuleNames ==
  /\ pc = "run_start"
  /\ top_module_names' = calc_top_module_names(all_include_files \cup {include_file_base_name})
  /\ pc' = "run_types"
  /\ UNCHANGED <<runInput, processed_types, unnamed_items, any_success, passes, cpp_methods,
                 module_names, modules, run_log, run_result, run_no, first_result>>
  /\ UNCHANGED <<enumVars, ovVars, nameVars, typeVars, methodVars>>

\* What run() does with the outcomes d of the first loop of
\* calc_processed_types and u of the loop over the template instantiations.
DirectTypesDone(d, u) ==
  IF d.panicked
  THEN /\ run_result' = [status |-> "Panic", error |-> "prepare_enum_values",
                         output |-> <<>>]
       /\ pc' = "run_done"
       /\ UNCHANGED <<processed_types, unnamed_items, run_log>>
  ELSE IF ~d.ok \/ ~u.ok
  THEN /\ Abort("calc_processed_types")
       /\ UNCHANGED <<processed_types, unnamed_items, run_log>>
  ELSE /\ processed_types' = d.result
       /\ unnamed_items' = u.items
       /\ run_log' = run_log \o d.log
       /\ pc' = "run_templates"
       /\ UNCHANGED run_result

\* calc_processed_types up to the while loop: the parsed types are registered
\* and the template instantiations are collected.
CalcProcessedTypesDirect ==
  /\ pc = "run_types"
  /\ \E enum_order \in Orders(DistinctValues(TypeColor.values)) :
       DirectTypesDone(
         direct_types(top_module_names, run_types, enum_order,
                      [ok |-> TRUE, panicked |-> FALSE, result |-> <<>>, log |-> <<>>]),
         unnamed_items_of(top_module_names, run_types, template_instantiations,
                          [ok |-> TRUE, items |-> <<>>]))
  /\ any_success' = TRUE
  /\ passes' = 0
  /\ UNCHANGED <<runInput, top_module_names, cpp_methods, module_names, modules,
                 run_no, first_result>>
  /\ UNCHANGED <<enumVars, ovVars, nameVars, typeVars, methodVars>>

\* The state after a pass p of the while loop.
TemplatePassDone(p) ==
  /\ processed_types' = p.result
  /\ unnamed_items' = p.unnamed_items_new
  /\ any_success' = p.any_success
  /\ passes' = passes + 1
  /\ run_log' = run_log \o p.log

\* One pass of the while loop of calc_processed_types that is allowed to try.
TemplatePass ==
  /\ pc = "run_templates"
  /\ unnamed_items # <<>>
  /\ any_success
  /\ TemplatePassDone(
       template_pass(run_types, unnamed_items,
                     [result |-> processed_types, unnamed_items_new |-> <<>>,
                      any_success |-> FALSE, log |-> <<>>]))
  /\ UNCHANGED <<pc, runInput, top_module_names, cpp_methods, module_names, modules,
                 run_result, run_no, first_result>>
  /\ UNCHANGED <<enumVars, ovVars, nameVars, typeVars, methodVars>>

\* The while loop of calc_processed_types returning Err instead of leaving the
\* loop with `break`.
TemplateNoProgress_aborting ==
  /\ pc = "run_templates"
  /\ unnamed_items # <<>>
  /\ ~any_success
  /\ passes' = passes + 1
  /\ Abort("failed to generate Rust names for template types")
  /\ UNCHANGED <<runInput, top_module_names, processed_types, unnamed_items, any_success,
                 cpp_methods, module_names, modules, run_log, run_no, first_result>>
  /\ UNCHANGED <<enumVars, ovVars, nameVars, typeVars, methodVars>>

\* The while loop of calc_processed_types after a pass without success: every
\* pending item is logged with log::error, the loop is left with `break`, and
\* calc_processed_types goes on to the slot wrappers (the model has none) and
\* returns Ok(result).
TemplateNoProgress ==
  /\ pc = "run_templates"
  /\ unnamed_items # <<>>
  /\ ~any_success
  /\ passes' = passes + 1
  /\ IF \E i \in DOMAIN unnamed_items :
          template_final_name(processed_types, unnamed_items[i]).ok
     THEN /\ Abort("template_final_name must return Err at this stage")
          /\ UNCHANGED run_log
     ELSE /\ run_log' = run_log \o
               [i \in DOMAIN unnamed_items |->
                  LogEntry("failed_to_generate_name",
                           ClassBase(unnamed_items[i].cpp_name,
                                     unnamed_items[i].cpp_template_arguments))]
          /\ pc' = "run_filter"
          /\ UNCHANGED run_result
  /\ unnamed_items' = <<>>
  /\ UNCHANGED <<runInput, top_module_names, processed_types, any_success, cpp_methods,
                 module_names, modules, run_no, first_result>>
  /\ UNCHANGED <<enumVars, ovVars, nameVars, typeVars, methodVars>>

\* The while loop ends with nothing pending; calc_processed_types returns.
FinishProcessedTypes ==
  /\ pc = "run_templates"
  /\ unnamed_items = <<>>
  /\ pc' = "run_filter"
  /\ UNCHANGED <<runVars, enumVars, ovVars, nameVars, typeVars, methodVars>>

\* The filter of run() without its test of the class type: every method is kept.
method_class_available_unchecked(processed, method) == TRUE

\* The predicate of the filter of run(): a free function, or a method of a
\* class whose name and template arguments are those of a registered type.
method_class_available(processed, method) ==
  \/ method.class_membership = None
  \/ \E i \in DOMAIN processed :
       /\ processed[i].cpp_name = method.class_membership[2].class_type.name
       /\ processed[i].cpp_template_arguments
            = method.class_membership[2].class_type.template_arguments

\* The Rust names of the free functions among `methods`
\* (free_function_rust_name).
free_function_names(top, methods) ==
  [i \in DOMAIN methods |->
     calculate_rust_name(top, methods[i].name, methods[i].include_file, TRUE)]

\* What run() does with the names of the free functions that it kept.
FreeFunctionNamesDone(names) ==
  IF \E i \in DOMAIN names : ~names[i].ok
  THEN /\ Abort("free_function_rust_name")
       /\ UNCHANGED module_names
  ELSE /\ module_names' =
            SortedStrings({processed_types[i].rust_name[2] : i \in DOMAIN processed_types}
                            \cup {names[i].parts[2] : i \in DOMAIN names})
       /\ pc' = "run_modules"
       /\ UNCHANGED run_result

\* What run() does with the methods that its filter kept and skipped.
FilterDone(kept, skipped) ==
  /\ cpp_methods' = kept
  /\ run_log' = run_log \o
       [i \in DOMAIN skipped |-> LogEntry("method_skipped", skipped[i].c_name)]
  /\ FreeFunctionNamesDone(
       free_function_names(top_module_names,
                           SelectSeq(kept, LAMBDA m : m.class_membership = None)))

\* run(): the methods of all headers are filtered, the names of the top level
\* modules are collected and sorted.
FilterMethods ==
  /\ pc = "run_filter"
  /\ FilterDone(
       SelectSeq(run_methods, LAMBDA m : method_class_available(processed_types, m)),
       SelectSeq(run_methods, LAMBDA m : ~method_class_available(processed_types, m)))
  /\ UNCHANGED <<runInput, top_module_names, processed_types, unnamed_items, any_success, passes,
                 modules, run_no, first_result>>
  /\ UNCHANGED <<enumVars, ovVars, nameVars, typeVars, methodVars>>

\* The Rust names of `methods`.
method_rust_names(top, methods) ==
  {method_rust_name(top, methods[i]).parts : i \in DOMAIN methods}

\* The keys that the hash containers of generate_module may hold.
LastNamesOf(methods) ==
  {n[Len(n)] : n \in method_rust_names(top_module_names, methods)}

ReceiverNames == {parser_methods[i].name : i \in DOMAIN parser_methods}

SubmoduleNames ==
  UNION { {n[i] : i \in 3..(Len(n) - 1)} :
            n \in {processed_types[i].rust_name : i \in DOMAIN processed_types}
                    \cup method_rust_names(top_module_names, cpp_methods) }

\* What run() does with the outcome r of generate_module.
GenerateModuleDone(r) ==
  IF ~r.ok
  THEN /\ Abort("generate_module")
       /\ UNCHANGED <<modules, cpp_methods, run_log, module_names>>
  ELSE /\ modules' = modules \o r.module
       /\ cpp_methods' = r.cpp_methods
       /\ run_log' = run_log \o r.log
       /\ module_names' = Tail(module_names)
       /\ UNCHANGED <<pc, run_result>>

\* run(): one turn of the loop over the module names.
GenerateModule ==
  /\ pc = "run_modules"
  /\ module_names # <<>>
  /\ \E headers \in Orders(DOMAIN top_module_names),
        submodules \in Orders(SubmoduleNames),
        names \in Orders(LastNamesOf(cpp_methods)),
        receivers \in Orders(ReceiverNames) :
       GenerateModuleDone(
         generate_module(processed_types, top_module_names, run_types,
                         parser_methods, cpp_methods,
                         <<crate_name, Head(module_names)>>,
                         [headers |-> headers, submodules |-> submodules,
                          names |-> names, receivers |-> receivers]))
  /\ UNCHANGED <<runInput, top_module_names, processed_types, unnamed_items, any_success, passes,
                 run_no, first_result>>
  /\ UNCHANGED <<enumVars, ovVars, nameVars, typeVars, methodVars>>

\* RustProcessedTypeInfo::is_declared_in: some module, at any depth, declares
\* a wrapper of the C++ type with these template arguments.
RECURSIVE is_declared_in(_, _)
is_declared_in(type1, mods) ==
  \E m \in DOMAIN mods :
    \/ \E t \in DOMAIN mods[m].types :
         /\ mods[m].types[t].kind \in {"Struct", "Enum"}
         /\ mods[m].types[t].cpp_type_name = type1.cpp_name
         /\ mods[m].types[t].cpp_template_arguments = type1.cpp_template_arguments
    \/ is_declared_in(type1, mods[m].submodules)

\* The end of run() without its test of the methods left.
final_result_ignoring_methods(methods_left, processed, mods) ==
  IF \E i \in DOMAIN processed : ~is_declared_in(processed[i], mods)
  THEN Failed("unprocessed cpp types left")
  ELSE [status |-> "Ok", error |-> "",
        output |-> << [modules |-> mods, processed_types |-> processed] >>]

\* The end of run(): what it returns for the methods left, the registry and
\* the modules.
final_result(methods_left, processed, mods) ==
  IF methods_left # <<>> THEN Failed("unprocessed cpp methods left")
  ELSE IF \E i \in DOMAIN processed : ~is_declared_in(processed[i], mods)
  THEN Failed("unprocessed cpp types left")
  ELSE [status |-> "Ok", error |-> "",
        output |-> << [modules |-> mods, processed_types |-> processed] >>]

\* What the end of run() logs with log::error.
final_log(methods_left, processed, mods) ==
  IF methods_left # <<>>
  THEN [i \in DOMAIN methods_left |-> LogEntry("unprocessed_method", methods_left[i].c_name)]
  ELSE LET undeclared == SelectSeq(processed, LAMBDA t : ~is_declared_in(t, mods))
       IN  [i \in DOMAIN undeclared |->
              LogEntry("type_not_processed",
                       ClassBase(undeclared[i].cpp_name, undeclared[i].cpp_template_arguments))]

\* run(): after the last module, the leftovers decide between Err and Ok.
FinalCheck ==
  /\ pc = "run_modules"
  /\ module_names = <<>>
  /\ run_result' = final_result(cpp_methods, processed_types, modules)
  /\ run_log' = run_log \o final_log(cpp_methods, processed_types, modules)
  /\ pc' = "run_done"
  /\ UNCHANGED <<runInput, top_module_names, processed_types, unnamed_items, any_success, passes,
                 cpp_methods, module_names, modules, run_no, first_result>>
  /\ UNCHANGED <<enumVars, ovVars, nameVars, typeVars, methodVars>>

\* The whole projection is run a second time on the same input, with a fresh
\* generator.
Restart ==
  /\ pc = "run_done"
  /\ run_no = 1
  /\ first_result' = run_result
  /\ run_no' = 2
  /\ pc' = "run_start"
  /\ FreshRunStateNext
  /\ UNCHANGED <<runInput, enumVars, ovVars, nameVars, typeVars, methodVars>>

\* The second run gets the same types and methods in another order.
RestartPermuted ==
  /\ pc = "run_done"
  /\ run_no = 1
  /\ first_result' = run_result
  /\ run_no' = 2
  /\ pc' = "run_start"
  /\ FreshRunStateNext
  /\ run_types' \in Permutations_of(run_types)
  /\ run_methods' \in Permutations_of(run_methods)
  /\ <<run_types', run_methods'>> # <<run_types, run_methods>>
  /\ UNCHANGED <<run_instantiations, enumVars, ovVars, nameVars, typeVars, methodVars>>

(***************************************************************************)
(* Inputs of the Name Resolver: C++ names and the headers that declare     *)
(* them, as in calculate_rust_name_test and                                *)
(* remove_prefix_and_convert_case_test.                                    *)
(***************************************************************************)
\* myFunc1, QStringList::Iterator, QPointF, ns::func1, QDirIterator,
\* Qt3DWindow, OneTwo, Q, Self, type::Foo, detail::Foo, foo::Bar, qMove
CppNames ==
  { <<"m","y","F","u","n","c","1">>,
    <<"Q","S","t","r","i","n","g","L","i","s","t",":",":","I","t","e","r","a","t","o","r">>,
    <<"Q","P","o","i","n","t","F">>,
    <<"n","s",":",":","f","u","n","c","1">>,
    <<"Q","D","i","r","I","t","e","r","a","t","o","r">>,
    <<"Q","t","3","D","W","i","n","d","o","w">>,
    <<"O","n","e","T","w","o">>,
    <<"Q">>,
    <<"S","e","l","f">>,
    <<"t","y","p","e",":",":","F","o","o">>,
    <<"d","e","t","a","i","l",":",":","F","o","o">>,
    <<"f","o","o",":",":","B","a","r">>,
    <<"q","M","o","v","e">> }

\* QtGlobal, QStringList, QString, QPointF, QRect, foo.h, move.h, slots
IncludeFiles ==
  { <<"Q","t","G","l","o","b","a","l">>,
    <<"Q","S","t","r","i","n","g","L","i","s","t">>,
    <<"Q","S","t","r","i","n","g">>,
    <<"Q","P","o","i","n","t","F">>,
    <<"Q","R","e","c","t">>,
    <<"f","o","o",".","h">>,
    <<"m","o","v","e",".","h">>,
    <<"s","l","o","t","s">> }

\* The prefix lists of remove_prefix_and_convert_case_test: none, and q, Q, Qt.
PrefixLists == { <<>>, prefixes_to_remove }

\* One call: a C++ name, the header that declares it, whether it names a
\* function, the prefix list, and whether the generator has a top level
\* module for the header.
NameInputs ==
  [name : CppNames, include_file : IncludeFiles, is_function : BOOLEAN,
   prefixes : PrefixLists, header_known : BOOLEAN]

NoNameInput ==
  [name |-> <<>>, include_file |-> <<>>, is_function |-> FALSE, prefixes |-> <<>>,
   header_known |-> FALSE]

NoNameResult == [ok |-> FALSE, s |-> <<>>, case |-> "", text |-> <<>>, parts |-> <<>>]

NameIdle ==
  /\ name_input = NoNameInput
  /\ name_result = NoNameResult

(***************************************************************************)
(* The Type Bridge in full: ffi_type and complete_type with the            *)
(* dependency registries, function pointers, the indirection check, the    *)
(* allocation place, the conversions and the lifetimes of references.      *)
(* Result<T> is Ok(value) or Err(message); a failed assert! is Panicked.   *)
(***************************************************************************)
Ok(value) == [status |-> "Ok", value |-> value]

Err(message) == [status |-> "Err", error |-> message]

Panicked == [status |-> "Panicked"]

\* RustProcessedTypeInfo as find_type_info and complete_type read it: kind is
\* "Struct" or "Enum", is_deletable that of RustTypeWrapperKind::Struct.
RustProcessedTypeInfo(cpp_name, cpp_template_arguments, kind, is_deletable, rust_name) ==
  [cpp_name |-> cpp_name, cpp_template_arguments |-> cpp_template_arguments,
   kind |-> kind, is_deletable |-> is_deletable, rust_name |-> rust_name]

\* CppType as ffi_type reads it; base is a CppTypeBase: a record with `kind`
\* and the fields of the variant.
CppTypeOf(base, indirection, is_const) ==
  [base |-> base, indirection |-> indirection, is_const |-> is_const, is_const2 |-> FALSE]

\* CppFfiType: a type, the type that crosses the boundary in its place and
\* the CppIndirectionChange between the two.
CppFfiType(original_type, ffi_type_, conversion) ==
  [original_type |-> original_type, ffi_type |-> ffi_type_, conversion |-> conversion]

\* RustType::EmptyTuple
EmptyTuple == [variant |-> "EmptyTuple"]

\* RustType::Common; `indirection` and `lifetime` are the RustTypeIndirection,
\* lifetime None for all but a named lifetime of Ref and PtrRef.
RustTypeCommon(base, generic_arguments, indirection, lifetime, is_const, is_const2) ==
  [variant |-> "Common", base |-> base, generic_arguments |-> generic_arguments,
   indirection |-> indirection, lifetime |-> lifetime,
   is_const |-> is_const, is_const2 |-> is_const2]

\* RustType::FunctionPointer
RustTypeFunctionPointer(arguments, return_type) ==
  [variant |-> "FunctionPointer", arguments |-> arguments, return_type |-> return_type]

\* The entries of the own registry and of the dependencies.
type_infos(processed, dependencies) ==
  {(processed \o Concat(dependencies))[i] : i \in DOMAIN (processed \o Concat(dependencies))}

\* find_type_info: the first entry among `matching`, the entries that satisfy
\* the closure f, of the own registry first, then of the dependencies in
\* their order; None or Some(entry).
find_type_info(processed, dependencies, matching) ==
  IF \E i \in DOMAIN (processed \o Concat(dependencies)) :
       (processed \o Concat(dependencies))[i] \in matching
  THEN Some((processed \o Concat(dependencies))[
              CHOOSE i \in DOMAIN (processed \o Concat(dependencies)) :
                /\ (processed \o Concat(dependencies))[i] \in matching
                /\ \A j \in 1..(i - 1) : (processed \o Concat(dependencies))[j] \notin matching])
  ELSE None

\* The names of lines 609-622 for the built-in numeric types of the model;
\* <<>> for a type of the `_` arm.
numeric_own_name(numeric) ==
  CASE numeric = "Int" -> <<"c","_","i","n","t">>
    [] numeric = "UInt" -> <<"c","_","u","i","n","t">>
    [] numeric = "Double" -> <<"c","_","d","o","u","b","l","e">>
    [] OTHER -> <<>>

\* Lines 679-697 of ffi_type: the RustType::Common of the name with the
\* indirection and the constness of the C++ type.
ffi_type_common(rust_name, cpp_ffi_type) ==
  IF cpp_ffi_type.indirection \in {"None", "Ptr", "PtrPtr"}
  THEN Ok(RustTypeCommon(rust_name, None, cpp_ffi_type.indirection, None,
                         cpp_ffi_type.is_const, cpp_ffi_type.is_const2))
  ELSE Err("invalid FFI type indirection")

\* What ffi_type makes of the outcome of find_type_info for an enum or class.
ffi_type_found(info, cpp_ffi_type) ==
  IF info = None THEN Err("type has no Rust equivalent")
  ELSE ffi_type_common(info[2].rust_name, cpp_ffi_type)

\* Lines 667-675: the first error among the arguments, then that of the
\* return type, else the RustType::FunctionPointer.
ffi_type_function_pointer(rust_args, rust_return_type) ==
  IF \E i \in DOMAIN rust_args : rust_args[i].status # "Ok"
  THEN rust_args[CHOOSE i \in DOMAIN rust_args :
                   /\ rust_args[i].status # "Ok"
                   /\ \A j \in 1..(i - 1) : rust_args[j].status = "Ok"]
  ELSE IF rust_return_type.status # "Ok" THEN rust_return_type
  ELSE Ok(RustTypeFunctionPointer([i \in DOMAIN rust_args |-> rust_args[i].value],
                                  rust_return_type.value))

\* ffi_type with the dependency registries: Ok(RustType) or Err.
RECURSIVE ffi_type_with_dependencies(_, _, _)
ffi_type_with_dependencies(processed, dependencies, cpp_ffi_type) ==
  CASE cpp_ffi_type.base.kind = "Void" ->
         IF cpp_ffi_type.indirection = "None" THEN Ok(EmptyTuple)
         ELSE ffi_type_common(<< <<"l","i","b","c">>, <<"c","_","v","o","i","d">> >>, cpp_ffi_type)
    [] cpp_ffi_type.base.kind = "BuiltInNumeric" ->
         IF cpp_ffi_type.base.numeric = "Bool"
         THEN ffi_type_common(<< <<"b","o","o","l">> >>, cpp_ffi_type)
         ELSE IF numeric_own_name(cpp_ffi_type.base.numeric) = <<>>
         THEN Err("unsupported numeric type")
         ELSE ffi_type_common(<< <<"l","i","b","c">>, numeric_own_name(cpp_ffi_type.base.numeric) >>,
                              cpp_ffi_type)
    [] cpp_ffi_type.base.kind = "PointerSizedInteger" ->
         ffi_type_common(IF cpp_ffi_type.base.is_signed
                         THEN << <<"i","s","i","z","e">> >>
                         ELSE << <<"u","s","i","z","e">> >>, cpp_ffi_type)
    [] cpp_ffi_type.base.kind = "Enum" ->
         ffi_type_found(find_type_info(processed, dependencies,
                          {x \in type_infos(processed, dependencies) : x.cpp_name = cpp_ffi_type.base.name}),
                        cpp_ffi_type)
    [] cpp_ffi_type.base.kind = "Class" ->
         ffi_type_found(find_type_info(processed, dependencies,
                          {x \in type_infos(processed, dependencies) : /\ x.cpp_name = cpp_ffi_type.base.name
                                     /\ x.cpp_template_arguments
                                          = cpp_ffi_type.base.template_arguments}),
                        cpp_ffi_type)
    [] cpp_ffi_type.base.kind = "FunctionPointer" ->
         IF cpp_ffi_type.base.allows_variadic_arguments
         THEN Err("function pointers with variadic arguments are not supported")
         ELSE ffi_type_function_pointer(
                [i \in DOMAIN cpp_ffi_type.base.arguments |->
                   ffi_type_with_dependencies(processed, dependencies,
                                              cpp_ffi_type.base.arguments[i])],
                ffi_type_with_dependencies(processed, dependencies,
                                           cpp_ffi_type.base.return_type))
    [] OTHER -> Err("invalid cpp type")

\* rust_api_type of a RustType::Common with its base replaced by CppBox and
\* the type itself as the generic argument (lines 467-475).
cpp_box_of(t) ==
  [t EXCEPT !.indirection = "None",
            !.base = << <<"c","p","p","_","u","t","i","l","s">>, <<"C","p","p","B","o","x">> >>,
            !.generic_arguments =
              Some(<<RustTypeCommon(t.base, None, "None", None, FALSE, FALSE)>>)]

\* [type, conversion]: the Rust API type and the RustToCTypeConversion.
ApiType(type, conversion) == [type |-> type, conversion |-> conversion]

\* Lines 456-483: a value returned through a pointer, by allocation place.
value_to_pointer_return(t, allocation_place) ==
  CASE allocation_place = "Stack" -> Ok(ApiType([t EXCEPT !.indirection = "None"], "ValueToPtr"))
    [] allocation_place = "Heap" ->
         IF t.generic_arguments # None \/ t.is_const \/ t.is_const2 THEN Panicked
         ELSE Ok(ApiType(cpp_box_of(t), "CppBoxToPtr"))
    [] OTHER -> Err("NotApplicable conflicts with ValueToPointer")

\* Lines 431-483: ValueToPointer for a return value, with the outcome `info`
\* of find_type_info for the base of the type.
value_to_pointer_checked(info, t, allocation_place) ==
  IF info = None THEN Err("find_type_info failed in complete_type() after success in ffi_type()")
  ELSE IF info[2].kind = "Enum" THEN Err("class type expected here")
  ELSE IF ~info[2].is_deletable THEN Err("is not deletable")
  ELSE value_to_pointer_return(t, allocation_place)

\* Lines 421-513: the API type of a RustType::Common t by the conversion.
api_type_common(processed, dependencies, t, conversion, argument_meaning, is_template_argument, allocation_place) ==
  CASE conversion = "NoChange" ->
         IF argument_meaning = "This"
         THEN IF t.indirection # "Ptr" THEN Panicked
              ELSE Ok(ApiType([t EXCEPT !.indirection = "Ref"], "RefToPtr"))
         ELSE Ok(ApiType(t, "None"))
    [] conversion = "ValueToPointer" ->
         IF t.indirection # "Ptr" THEN Panicked
         ELSE IF argument_meaning = "ReturnValue"
         THEN value_to_pointer_checked(
                find_type_info(processed, dependencies, {x \in type_infos(processed, dependencies) : x.rust_name = t.base}),
                t, allocation_place)
         ELSE IF is_template_argument
         THEN Ok(ApiType([t EXCEPT !.indirection = "None", !.is_const = TRUE, !.is_const2 = TRUE],
                         "ValueToPtr"))
         ELSE Ok(ApiType([t EXCEPT !.indirection = "Ref", !.is_const = TRUE, !.is_const2 = TRUE],
                         "RefToPtr"))
    [] conversion = "ReferenceToPointer" ->
         CASE t.indirection = "Ptr" -> Ok(ApiType([t EXCEPT !.indirection = "Ref"], "RefToPtr"))
           [] t.indirection = "PtrPtr" -> Ok(ApiType([t EXCEPT !.indirection = "PtrRef"], "RefToPtr"))
           [] OTHER -> Err("invalid indirection for ReferenceToPointer")
    [] OTHER -> Ok(ApiType(t, "None"))

\* Lines 413-514: the API type of any RustType; only a RustType::Common is
\* changed.
api_type_of(processed, dependencies, t, conversion, argument_meaning, is_template_argument, allocation_place) ==
  IF t.variant = "Common"
  THEN api_type_common(processed, dependencies, t, conversion, argument_meaning,
                       is_template_argument, allocation_place)
  ELSE Ok(ApiType(t, "None"))

\* Lines 515-557: the Flags type of a QFlags argument, with the API type
\* `api` made so far.
qflags_api_type(processed, dependencies, original_type, api) ==
  IF original_type.base.kind # "Class" THEN Err("invalid original type for QFlags")
  ELSE IF original_type.base.template_arguments = None
  THEN Err("QFlags type must have template arguments")
  ELSE IF Len(original_type.base.template_arguments[2]) # 1
  THEN Err("QFlags type must have exactly 1 template argument")
  ELSE IF original_type.base.template_arguments[2][1].base.kind # "Enum"
  THEN Err("invalid original type for QFlags")
  ELSE IF find_type_info(processed, dependencies,
            {x \in type_infos(processed, dependencies) : x.cpp_name = original_type.base.template_arguments[2][1].base.name}) = None
  THEN Err("type has no Rust equivalent")
  ELSE Ok(ApiType(
         RustTypeCommon(
           << <<"q","t","_","c","o","r","e">>, <<"f","l","a","g","s">>, <<"F","l","a","g","s">> >>,
           Some(<<RustTypeCommon(
                    find_type_info(processed, dependencies,
                      {x \in type_infos(processed, dependencies) : x.cpp_name
                                   = original_type.base.template_arguments[2][1].base.name})[2].rust_name,
                    None, "None", None, FALSE, FALSE)>>),
           "None", None, FALSE, FALSE),
         "QFlagsToUInt"))

\* The CompleteType of lines 559-566.
CompleteType(cpp_ffi_type, rust_ffi_type, api) ==
  [cpp_ffi_type |-> cpp_ffi_type.ffi_type, cpp_type |-> cpp_ffi_type.original_type,
   cpp_to_ffi_conversion |-> cpp_ffi_type.conversion, rust_ffi_type |-> rust_ffi_type,
   rust_api_type |-> api.type, rust_api_to_c_conversion |-> api.conversion]

\* complete_type after the API type of lines 413-514 is made.
complete_type_of_api(processed, dependencies, cpp_ffi_type, rust_ffi_type, api) ==
  IF api.status # "Ok" THEN api
  ELSE IF cpp_ffi_type.conversion # "QFlagsToUInt"
  THEN Ok(CompleteType(cpp_ffi_type, rust_ffi_type, api.value))
  ELSE IF qflags_api_type(processed, dependencies, cpp_ffi_type.original_type, api.value).status # "Ok"
  THEN qflags_api_type(processed, dependencies, cpp_ffi_type.original_type, api.value)
  ELSE Ok(CompleteType(cpp_ffi_type, rust_ffi_type,
            qflags_api_type(processed, dependencies, cpp_ffi_type.original_type, api.value).value))

\* complete_type after its call of ffi_type, whose outcome is rust_ffi_type.
complete_type_of_ffi(processed, dependencies, cpp_ffi_type, rust_ffi_type, argument_meaning, is_template_argument, allocation_place) ==
  IF rust_ffi_type.status # "Ok" THEN rust_ffi_type
  ELSE complete_type_of_api(processed, dependencies, cpp_ffi_type, rust_ffi_type.value,
         api_type_of(processed, dependencies, rust_ffi_type.value, cpp_ffi_type.conversion,
                     argument_meaning, is_template_argument, allocation_place))

\* complete_type with the dependency registries and the allocation place:
\* Ok(CompleteType), Err or Panicked.
complete_type_with_place(processed, dependencies, cpp_ffi_type, argument_meaning, is_template_argument, allocation_place) ==
  complete_type_of_ffi(processed, dependencies, cpp_ffi_type,
    ffi_type_with_dependencies(processed, dependencies, cpp_ffi_type.ffi_type),
    argument_meaning, is_template_argument, allocation_place)

(***************************************************************************)
(* Inputs of the Type Bridge                                               *)
(***************************************************************************)
CppClass(name) == [kind |-> "Class", name |-> name, template_arguments |-> None]

\* QFlags<name>
CppFlags(name) ==
  [kind |-> "Class", name |-> "QFlags",
   template_arguments |-> Some(<<[base |-> [kind |-> "Enum", name |-> name], indirection |-> "None",
                                  is_const |-> FALSE, is_const2 |-> FALSE]>>)]

CppEnum(name) == [kind |-> "Enum", name |-> name]

CppNumeric(numeric) == [kind |-> "BuiltInNumeric", numeric |-> numeric]

CppVoid == [kind |-> "Void"]

CppFunctionPointer(return_type, arguments, allows_variadic_arguments) ==
  [kind |-> "FunctionPointer", return_type |-> return_type, arguments |-> arguments,
   allows_variadic_arguments |-> allows_variadic_arguments]

\* The variants of CppTypeIndirection that lines 684-686 do not name.
OtherIndirections == {"Ref", "PtrRef", "RValueRef"}

RustA == << <<"q","c">>, <<"a">>, <<"A">> >>

RustB == << <<"q","c">>, <<"b">>, <<"B">> >>

RustE == << <<"q","c">>, <<"e">>, <<"E">> >>

RustFoo == << <<"q","c">>, <<"f","o","o">>, <<"F","o","o">> >>

InfoA == RustProcessedTypeInfo("QA", None, "Struct", TRUE, RustA)

InfoB == RustProcessedTypeInfo("QB", None, "Struct", FALSE, RustB)

InfoE == RustProcessedTypeInfo("QE", None, "Enum", FALSE, RustE)

InfoFoo == RustProcessedTypeInfo("Foo", None, "Struct", TRUE, RustFoo)

InfoDetailFoo == RustProcessedTypeInfo("detail::Foo", None, "Struct", FALSE, RustFoo)

InfoOwnDep == RustProcessedTypeInfo("QDep", None, "Struct", TRUE, << <<"q","c">>, <<"D","e","p">> >>)

InfoDep1 == RustProcessedTypeInfo("QDep", None, "Struct", TRUE, << <<"d","1">>, <<"D","e","p">> >>)

InfoDep2 == RustProcessedTypeInfo("QDep", None, "Struct", TRUE, << <<"d","2">>, <<"D","e","p">> >>)

InfoDep2X == RustProcessedTypeInfo("QX", None, "Struct", TRUE, << <<"d","2">>, <<"X">> >>)

\* The own registries of the model, as calc_processed_types leaves them:
\* Foo and detail::Foo are registered under one Rust name.
TypeRegistries ==
  { <<>>, <<InfoA, InfoB, InfoE>>, <<InfoA, InfoE, InfoOwnDep>>,
    <<InfoFoo, InfoDetailFoo>>, <<InfoDetailFoo, InfoFoo>> }

\* The registries of the dependencies, in the order of the configuration.
DependencyRegistries ==
  { <<>>, << <<InfoDep1>> >>, << <<InfoDep1>>, <<InfoDep2, InfoDep2X>> >>,
    << <<InfoDep2, InfoDep2X>>, <<InfoDep1>> >> }

\* The type bases of the model other than function pointers.
PlainBases ==
  { CppVoid, CppNumeric("Bool"), CppNumeric("Int"), CppNumeric("LongDouble"),
    CppClass("QA"), CppClass("QB"), CppClass("Foo"), CppClass("detail::Foo"),
    CppClass("QDep"), CppClass("QX"), CppEnum("QE"), CppEnum("QNone"),
    CppFlags("QE"), CppFlags("QNone"), [kind |-> "TemplateParameter"] }

\* The argument and return types of the function pointers of the model.
FunctionPointerParts ==
  { CppTypeOf(CppVoid, "None", FALSE), CppTypeOf(CppNumeric("Int"), "None", FALSE),
    CppTypeOf(CppClass("QA"), "Ptr", FALSE), CppTypeOf(CppClass("QNone"), "Ptr", FALSE),
    CppTypeOf(CppNumeric("Int"), "Ref", FALSE),
    CppTypeOf(CppFunctionPointer(CppTypeOf(CppVoid, "None", FALSE), <<>>, FALSE), "None", FALSE),
    CppTypeOf(CppFunctionPointer(CppTypeOf(CppVoid, "None", FALSE), <<>>, TRUE), "None", FALSE),
    CppTypeOf(CppFunctionPointer(CppTypeOf(CppVoid, "None", FALSE), <<>>, FALSE), "Ref", FALSE) }

FunctionPointerBases ==
  { CppFunctionPointer(CppTypeOf(CppVoid, "None", FALSE), <<x>>, FALSE) : x \in FunctionPointerParts }
  \cup { CppFunctionPointer(x, <<>>, FALSE) : x \in FunctionPointerParts }
  \cup { CppFunctionPointer(CppTypeOf(CppVoid, "None", FALSE),
                           <<CppTypeOf(CppNumeric("Int"), "None", FALSE), x>>, v) :
            x \in {CppTypeOf(CppClass("QA"), "Ptr", FALSE), CppTypeOf(CppClass("QNone"), "Ptr", FALSE)},
            v \in BOOLEAN }

\* The types handed to ffi_type.
CppTypes ==
  { CppTypeOf(b, i, c) : b \in PlainBases, i \in {"None", "Ptr", "PtrPtr"} \cup OtherIndirections,
                         c \in BOOLEAN }
  \cup { CppTypeOf(b, "None", FALSE) : b \in FunctionPointerBases }

\* CppType::to_cpp_ffi_type: the type that crosses the boundary for a type
\* and the change of indirection.  A class by value crosses as a pointer, a
\* reference as a pointer, QFlags as an unsigned integer.
to_cpp_ffi_type(t, is_return) ==
  IF t.base.kind = "Class" /\ t.base.name = "QFlags" /\ t.indirection = "None"
  THEN CppFfiType(t, CppTypeOf(CppNumeric("UInt"), "None", FALSE), "QFlagsToUInt")
  ELSE IF t.base.kind = "Class" /\ t.indirection = "None"
  THEN CppFfiType(t, [t EXCEPT !.indirection = "Ptr", !.is_const = ~is_return], "ValueToPointer")
  ELSE IF t.indirection = "Ref"
  THEN CppFfiType(t, [t EXCEPT !.indirection = "Ptr"], "ReferenceToPointer")
  ELSE IF t.indirection = "PtrRef"
  THEN CppFfiType(t, [t EXCEPT !.indirection = "PtrPtr"], "ReferenceToPointer")
  ELSE CppFfiType(t, t, "NoChange")

\* The types for which to_cpp_ffi_type returns a boundary type.
HasFfiType(t) == t.indirection # "RValueRef" /\ t.base.kind # "TemplateParameter"

\* The calls of ffi_type and complete_type of the model: a `this` argument is
\* a pointer to a class, a template argument is an argument without an
\* allocation place.
TypeInputs ==
  { i \in [processed : TypeRegistries, dependencies : DependencyRegistries,
           cpp_type : CppTypes, argument_meaning : {"This", "Argument", "ReturnValue"},
           is_template_argument : BOOLEAN,
           allocation_place : {"Stack", "Heap", "NotApplicable"}] :
      /\ i.argument_meaning = "This" =>
            /\ i.cpp_type.base.kind = "Class"
            /\ i.cpp_type.indirection = "Ptr"
      /\ i.is_template_argument =>
            /\ i.argument_meaning = "Argument"
            /\ i.allocation_place = "NotApplicable"
      /\ i.argument_meaning = "Argument" => i.allocation_place = "NotApplicable" }

NoTypeInput ==
  [processed |-> <<>>, dependencies |-> <<>>, cpp_type |-> CppTypeOf(CppVoid, "None", FALSE),
   argument_meaning |-> "Argument", is_template_argument |-> FALSE,
   allocation_place |-> "NotApplicable"]

NoTypeResult == [status |-> "none"]

TypeIdle ==
  /\ type_input = NoTypeInput
  /\ type_result = NoTypeResult

(***************************************************************************)
(* The Method Projector in full: generate_rust_single_method with the      *)
(* return type, the lifetimes and the warning, process_destructor and      *)
(* process_all_sibling_functions with destructors and with the asserts of  *)
(* generate_final_method.  A RustMethodArgument is the record of the       *)
(* Overload Resolver with the lifetime of its API type added.              *)
(***************************************************************************)
\* The C++ spelling of a type base and of a type, which stands for the type
\* in a RustMethodArgument.
base_text(base) ==
  CASE base.kind = "Void" -> "void"
    [] base.kind = "BuiltInNumeric" -> IF base.numeric = "Int" THEN "int" ELSE "num"
    [] base.kind \in {"Class", "Enum"} -> base.name
    [] OTHER -> "fn"

cpp_text(t) ==
  (IF t.is_const THEN "const " ELSE "") \o base_text(t.base)
  \o (CASE t.indirection = "Ptr" -> "*"
        [] t.indirection = "Ref" -> "&"
        [] t.indirection = "PtrPtr" -> "**"
        [] t.indirection = "PtrRef" -> "*&"
        [] t.indirection = "RValueRef" -> "&&"
        [] OTHER -> "")

\* RustType::is_ref of an API type or of the API type of an argument.
is_ref(t) == t.indirection \in {"Ref", "PtrRef"}

\* RustType::with_lifetime
with_lifetime(t, lifetime) == [t EXCEPT !.lifetime = Some(lifetime)]

\* CppFfiFunctionArgument
CArgument(name, argument_type, meaning) ==
  [name |-> name, argument_type |-> argument_type, meaning |-> meaning]

\* CppFfiType::void()
FfiVoid == CppFfiType(CppTypeOf(CppVoid, "None", FALSE), CppTypeOf(CppVoid, "None", FALSE), "NoChange")

\* The signature of the C function of a method: `this` first for a member
\* that is not static, then the arguments; a value returned on the stack is
\* written through a last argument with the meaning ReturnValue.
c_signature_of(class_membership, arguments, return_type, allocation_place) ==
  [arguments |->
     (IF class_membership # None /\ ~class_membership[2].is_static
      THEN <<CArgument(<<"t","h","i","s","_","p","t","r">>,
                       to_cpp_ffi_type(
                         CppTypeOf(CppClass(class_membership[2].class_type), "Ptr",
                                   class_membership[2].is_const), FALSE),
                       "This")>>
      ELSE <<>>)
     \o [i \in DOMAIN arguments |->
           CArgument(arguments[i].name, to_cpp_ffi_type(arguments[i].argument_type, FALSE),
                     "Argument")]
     \o (IF to_cpp_ffi_type(return_type, TRUE).conversion = "ValueToPointer"
            /\ allocation_place = "Stack"
         THEN <<CArgument(<<"o","u","t","p","u","t">>, to_cpp_ffi_type(return_type, TRUE),
                          "ReturnValue")>>
         ELSE <<>>),
   return_type |->
     IF to_cpp_ffi_type(return_type, TRUE).conversion = "ValueToPointer"
        /\ allocation_place = "Stack"
     THEN FfiVoid
     ELSE to_cpp_ffi_type(return_type, TRUE)]

\* CppAndFfiMethod: the C++ method, its C name, the signature of the C
\* function and the allocation place of the method.
CppAndFfiMethod(c_name, name, include_file, class_membership, is_destructor, arguments, return_type, allocation_place) ==
  [c_name |-> c_name, name |-> name, include_file |-> include_file,
   class_membership |-> class_membership, is_destructor |-> is_destructor,
   c_signature |-> c_signature_of(class_membership, arguments, return_type, allocation_place),
   allocation_place |-> allocation_place]

\* Lines 941-961: the completed types of the arguments of the C signature
\* that are not the return value, each with its index in the signature.
argument_types(processed, dependencies, method) ==
  [k \in DOMAIN SelectSeq(method.c_signature.arguments, LAMBDA a : a.meaning # "ReturnValue") |->
     complete_type_with_place(processed, dependencies,
       SelectSeq(method.c_signature.arguments, LAMBDA a : a.meaning # "ReturnValue")[k].argument_type,
       SelectSeq(method.c_signature.arguments, LAMBDA a : a.meaning # "ReturnValue")[k].meaning,
       FALSE, method.allocation_place)]

\* The index in the C signature of the k-th argument that is not the return
\* value, counted from 0 (enumerate() of line 941).
ffi_index_of(method, k) ==
  (CHOOSE i \in DOMAIN method.c_signature.arguments :
     /\ method.c_signature.arguments[i].meaning # "ReturnValue"
     /\ Cardinality({j \in 1..i : method.c_signature.arguments[j].meaning # "ReturnValue"}) = k) - 1

\* Lines 951-959: the RustMethodArgument of the k-th such argument with its
\* completed type.
method_argument(method, k, completed) ==
  [name |-> IF method.c_signature.arguments[ffi_index_of(method, k) + 1].meaning = "This"
            THEN SelfName
            ELSE sanitize_rust_identifier(
                   to_snake_case(method.c_signature.arguments[ffi_index_of(method, k) + 1].name)),
   cpp_type |-> cpp_text(completed.cpp_type),
   indirection |-> IF completed.rust_api_type.variant = "Common"
                   THEN completed.rust_api_type.indirection ELSE "None",
   is_const |-> completed.rust_api_type.variant = "Common" /\ completed.rust_api_type.is_const,
   ffi_index |-> ffi_index_of(method, k),
   lifetime |-> None]

\* Lines 962-993: the completed return type, of the argument with the
\* meaning ReturnValue if there is one, else of the return type of the C
\* function.
return_type_of(processed, dependencies, method) ==
  IF \E i \in DOMAIN method.c_signature.arguments :
       method.c_signature.arguments[i].meaning = "ReturnValue"
  THEN IF method.c_signature.return_type # FfiVoid THEN Panicked
       ELSE complete_type_with_place(processed, dependencies,
              method.c_signature.arguments[
                CHOOSE i \in DOMAIN method.c_signature.arguments :
                  method.c_signature.arguments[i].meaning = "ReturnValue"].argument_type,
              "ReturnValue", FALSE, method.allocation_place)
  ELSE complete_type_with_place(processed, dependencies, method.c_signature.return_type,
                                "ReturnValue", FALSE, method.allocation_place)

\* The return type needs a lifetime (line 994).
needs_lifetime(return_type) ==
  /\ return_type.variant = "Common"
  /\ is_ref(return_type)
  /\ return_type.lifetime = None

\* fresh_lifetimes that gives every reference argument the lifetime l0.
fresh_lifetimes_all_l0(arguments) ==
  [i \in DOMAIN arguments |->
     IF is_ref(arguments[i]) /\ arguments[i].lifetime = None
     THEN with_lifetime(arguments[i], <<"l","0">>)
     ELSE arguments[i]]

\* Lines 1005-1016: every reference argument without a lifetime gets the
\* next of l0, l1, ...
fresh_lifetimes(arguments) ==
  [i \in DOMAIN arguments |->
     IF is_ref(arguments[i]) /\ arguments[i].lifetime = None
     THEN with_lifetime(arguments[i],
            <<"l">> \o NatToString(Cardinality({j \in 1..(i - 1) :
                                     is_ref(arguments[j]) /\ arguments[j].lifetime = None})))
     ELSE arguments[i]]

\* Lines 994-1034: [arguments, return_type, log] with the lifetimes set.
with_lifetimes(arguments, return_type, c_name) ==
  IF ~needs_lifetime(return_type)
  THEN [arguments |-> arguments, return_type |-> return_type, log |-> <<>>]
  ELSE IF \E i \in DOMAIN arguments : is_ref(arguments[i]) /\ arguments[i].lifetime # None
  THEN [arguments |-> arguments,
        return_type |->
          with_lifetime(return_type,
            arguments[CHOOSE i \in DOMAIN arguments :
                        /\ is_ref(arguments[i]) /\ arguments[i].lifetime # None
                        /\ \A j \in 1..(i - 1) :
                             ~(is_ref(arguments[j]) /\ arguments[j].lifetime # None)].lifetime[2]),
        log |-> <<>>]
  ELSE IF \E i \in DOMAIN arguments : is_ref(arguments[i])
  THEN [arguments |-> fresh_lifetimes(arguments),
        return_type |-> with_lifetime(return_type, <<"l","0">>),
        log |-> <<>>]
  ELSE [arguments |-> arguments,
        return_type |-> with_lifetime(return_type, <<"s","t","a","t","i","c">>),
        log |-> <<LogEntry("assuming_static_lifetime", c_name)>>]

\* RustSingleMethod whose flag is_unsafe looks at the return type as well.
RustSingleMethod_unsafe_by_return(method, scope, name, lifetimes) ==
  [c_name |-> method.c_name,
   name |-> name,
   scope |-> scope,
   arguments |-> lifetimes.arguments,
   return_type |-> lifetimes.return_type,
   is_unsafe |-> \/ \E i \in DOMAIN lifetimes.arguments : is_unsafe_argument(lifetimes.arguments[i])
                 \/ /\ lifetimes.return_type.variant = "Common"
                    /\ is_unsafe_argument(lifetimes.return_type)]

\* Lines 1045-1059: the RustSingleMethod.
RustSingleMethod(method, scope, name, lifetimes) ==
  [c_name |-> method.c_name,
   name |-> name,
   scope |-> scope,
   arguments |-> lifetimes.arguments,
   return_type |-> lifetimes.return_type,
   is_unsafe |-> \E i \in DOMAIN lifetimes.arguments : is_unsafe_argument(lifetimes.arguments[i])]

\* The outcome of generate_rust_single_method: the status, the method of an
\* Ok and what the call has logged.
SingleResult(status, value, log) == [status |-> status, value |-> value, log |-> log]

\* Lines 994-1059, with the outcome `name` of method_rust_name.
single_method_named(method, scope, name, lifetimes) ==
  IF ~name.ok THEN SingleResult("Err", <<>>, lifetimes.log)
  ELSE SingleResult("Ok", RustSingleMethod(method, scope, name.parts, lifetimes), lifetimes.log)

\* generate_rust_single_method after its calls of complete_type.
single_method_of(method, scope, completed, return_type, name) ==
  IF \E k \in DOMAIN completed : completed[k].status # "Ok"
  THEN SingleResult(completed[CHOOSE k \in DOMAIN completed :
                                /\ completed[k].status # "Ok"
                                /\ \A j \in 1..(k - 1) : completed[j].status = "Ok"].status,
                    <<>>, <<>>)
  ELSE IF return_type.status # "Ok" THEN SingleResult(return_type.status, <<>>, <<>>)
  ELSE single_method_named(method, scope, name,
         with_lifetimes([k \in DOMAIN completed |-> method_argument(method, k, completed[k].value)],
                        return_type.value.rust_api_type, method.c_name))

\* generate_rust_single_method with the return type and the lifetimes:
\* [status, value, log].
generate_rust_single_method_full(processed, dependencies, top, method, scope) ==
  single_method_of(method, scope,
                   argument_types(processed, dependencies, method),
                   return_type_of(processed, dependencies, method),
                   method_rust_name(top, method))

\* RustSingleMethod::to_rust_method
to_rust_method(m) ==
  [name |-> m.name, scope |-> m.scope, variants |-> <<m.c_name>>,
   is_unsafe |-> m.is_unsafe, trait |-> None]

\* TraitImpl; `extra` is None or Some(deleter_name) of TraitImplExtra::CppDeletable.
TraitImpl(target_type, trait_type, extra, methods) ==
  [target_type |-> target_type, trait_type |-> trait_type, extra |-> extra, methods |-> methods]

TraitImplScope == [kind |-> "TraitImpl", target_type |-> <<>>]

\* Lines 1072-1087: the Drop implementation made of the outcome `single` of
\* generate_rust_single_method for the destructor.
drop_impl(single, scope) ==
  IF single.status # "Ok" THEN single
  ELSE SingleResult("Ok",
         TraitImpl(scope.target_type, << <<"D","r","o","p">> >>, None,
                   <<to_rust_method([single.value EXCEPT !.name = << <<"d","r","o","p">> >>,
                                                       !.scope = TraitImplScope])>>),
         single.log)

\* process_destructor whose CppDeletable implementation holds the destructor
\* as a method.
process_destructor_deletable_with_method(processed, dependencies, top, method, scope) ==
  IF scope.kind # "Impl" THEN SingleResult("Err", <<>>, <<>>)
  ELSE CASE method.allocation_place = "Stack" ->
              drop_impl(generate_rust_single_method_full(processed, dependencies, top, method, scope),
                        scope)
         [] method.allocation_place = "Heap" ->
              SingleResult("Ok",
                TraitImpl(scope.target_type,
                          << <<"c","p","p","_","u","t","i","l","s">>,
                             <<"C","p","p","D","e","l","e","t","a","b","l","e">> >>,
                          Some(method.c_name),
                          <<to_rust_method([c_name |-> method.c_name, name |-> << <<"d","r","o","p">> >>,
                                            scope |-> TraitImplScope, is_unsafe |-> FALSE])>>),
                <<>>)
         [] OTHER -> SingleResult("Err", <<>>, <<>>)

\* process_destructor: [status, value, log], the value of an Ok a TraitImpl.
process_destructor(processed, dependencies, top, method, scope) ==
  IF scope.kind # "Impl" THEN SingleResult("Err", <<>>, <<>>)
  ELSE CASE method.allocation_place = "Stack" ->
              drop_impl(generate_rust_single_method_full(processed, dependencies, top, method, scope),
                        scope)
         [] method.allocation_place = "Heap" ->
              SingleResult("Ok",
                TraitImpl(scope.target_type,
                          << <<"c","p","p","_","u","t","i","l","s">>,
                             <<"C","p","p","D","e","l","e","t","a","b","l","e">> >>,
                          Some(method.c_name), <<>>),
                <<>>)
         [] OTHER -> SingleResult("Err", <<>>, <<>>)

\* Lines 1515-1526: the body of the first loop for a destructor, with the
\* outcome r of process_destructor.
destructor_step(acc, method, r) ==
  IF r.status = "Ok"
  THEN [acc EXCEPT !.trait_impls = Append(@, r.value), !.log = @ \o r.log]
  ELSE IF r.status = "Panicked" THEN [acc EXCEPT !.panicked = TRUE]
  ELSE [acc EXCEPT !.log = @ \o r.log
                            \o <<LogEntry("failed_to_generate_destructor", method.c_name)>>]

\* Lines 1527-1553: the body of the first loop for another method, with the
\* outcome r of generate_rust_single_method.
sibling_step(acc, method, r) ==
  IF r.status = "Ok"
  THEN [acc EXCEPT !.singles = Append(@, r.value), !.log = @ \o r.log]
  ELSE IF r.status = "Panicked" THEN [acc EXCEPT !.panicked = TRUE]
  ELSE [acc EXCEPT !.log = @ \o r.log \o <<LogEntry("failed_to_generate", method.c_name)>>]

\* The first loop of process_all_sibling_functions with destructors:
\* [singles, trait_impls, log, panicked].
RECURSIVE siblings_step1(_, _, _, _, _, _)
siblings_step1(processed, dependencies, top, methods, scope, acc) ==
  IF methods = <<>> \/ acc.panicked THEN acc
  ELSE siblings_step1(processed, dependencies, top, Tail(methods), scope,
         IF Head(methods).is_destructor
         THEN destructor_step(acc, Head(methods),
                process_destructor(processed, dependencies, top, Head(methods), scope))
         ELSE sibling_step(acc, Head(methods),
                generate_rust_single_method_full(processed, dependencies, top,
                                                 Head(methods), scope)))

\* The asserts of lines 1292-1297 for the sorted bucket: every member has the
\* name and the scope of the first, and its first argument is equal to the
\* self argument of the first if that has one.
final_method_asserts(sorted) ==
  \A i \in DOMAIN sorted :
    /\ sorted[i].name = sorted[1].name
    /\ sorted[i].scope = sorted[1].scope
    /\ (sorted[1].arguments # <<>> /\ sorted[1].arguments[1].name = SelfName) =>
         /\ Len(sorted[i].arguments) > 0
         /\ sorted[i].arguments[1] = sorted[1].arguments[1]

\* The asserts hold for every bucket of more than one method.
buckets_pass_asserts(buckets) ==
  \A b \in DOMAIN buckets :
    Len(buckets[b]) > 1 =>
      final_method_asserts(SortedBy(buckets[b], [i \in DOMAIN buckets[b] |-> <<buckets[b][i].c_name>>]))

\* Lines 1555-1570: the body of the second loop for one group, with the
\* outcome of overload_functions for it; acc is [status, methods].
checked_final_methods_step(acc, scope, overloaded) ==
  IF ~overloaded.ok THEN [acc EXCEPT !.status = "Err"]
  ELSE IF ~buckets_pass_asserts(overloaded.buckets) THEN [acc EXCEPT !.status = "Panicked"]
  ELSE [acc EXCEPT !.methods =
          @ \o [b \in DOMAIN overloaded.buckets |->
                  generate_final_method(overloaded.buckets[b], scope, overloaded.names[b])]]

\* The second loop of process_all_sibling_functions with the asserts of
\* generate_final_method, the groups visited in the order `keys`.
RECURSIVE checked_final_methods_of(_, _, _, _)
checked_final_methods_of(singles, keys, scope, acc) ==
  IF keys = <<>> \/ acc.status # "Ok" THEN acc
  ELSE checked_final_methods_of(singles, Tail(keys), scope,
         checked_final_methods_step(acc, scope,
           overload_functions(
             SelectSeq(singles, LAMBDA m : m.name[Len(m.name)] = Head(keys)))))

\* The end of process_all_sibling_functions: [status, methods, trait_impls, log].
siblings_result(step1, step2) ==
  [status |-> step2.status,
   methods |-> IF step2.status # "Ok" THEN <<>>
               ELSE SortedBy(step2.methods,
                             [i \in DOMAIN step2.methods |->
                                <<step2.methods[i].name[Len(step2.methods[i].name)]>>]),
   trait_impls |-> IF step2.status # "Ok" THEN <<>> ELSE step1.trait_impls,
   log |-> step1.log]

\* process_all_sibling_functions after its first loop.
siblings_of_step1(step1, scope, name_order) ==
  IF step1.panicked
  THEN [status |-> "Panicked", methods |-> <<>>, trait_impls |-> <<>>, log |-> step1.log]
  ELSE siblings_result(step1,
         checked_final_methods_of(step1.singles, single_method_keys(step1.singles, name_order),
                                  scope, [status |-> "Ok", methods |-> <<>>]))

\* process_all_sibling_functions with destructors and with the asserts of
\* generate_final_method, for methods that are no casts.  `name_order` is the
\* order in which the HashMap single_rust_methods yields its keys.
process_all_sibling_functions_full(processed, dependencies, top, methods, scope, name_order) ==
  siblings_of_step1(
    siblings_step1(processed, dependencies, top, methods, scope,
                   [singles |-> <<>>, trait_impls |-> <<>>, log |-> <<>>, panicked |-> FALSE]),
    scope, name_order)

(***************************************************************************)
(* Inputs of the Method Projector: methods of the class QA of a.h and free *)
(* functions of a.h                                                        *)
(***************************************************************************)
MaxSiblings == 3

HeaderA == <<"a",".","h">>

MethodRegistry == <<InfoA, InfoB, InfoE>>

MemberOfA(is_const, is_static) ==
  Some([class_type |-> "QA", is_const |-> is_const, is_static |-> is_static,
        is_signal |-> FALSE, is_slot |-> FALSE])

TInt == CppTypeOf(CppNumeric("Int"), "None", FALSE)

TIntPtr == CppTypeOf(CppNumeric("Int"), "Ptr", FALSE)

TVoid == CppTypeOf(CppVoid, "None", FALSE)

TConstRefB == CppTypeOf(CppClass("QB"), "Ref", TRUE)

TRefB == CppTypeOf(CppClass("QB"), "Ref", FALSE)

TValueA == CppTypeOf(CppClass("QA"), "None", FALSE)

TPtrUnknown == CppTypeOf(CppClass("QNone"), "Ptr", FALSE)

CppArg(name, argument_type) == [name |-> name, argument_type |-> argument_type]

\* The destructor of QA for an allocation place.
DestructorOfA(allocation_place) ==
  CppAndFfiMethod(<<"Q","A","_","d","e","l","e","t","e">>, <<"~","Q","A">>, HeaderA,
                  MemberOfA(FALSE, FALSE), TRUE, <<>>, TVoid, allocation_place)

\* The member functions of QA:
\*   const QB& f(int) const;  int f() const;  QB& f();  QB& g(const QB&, int*);
\*   static QB& s();  QA h() const (on the stack, on the heap);
\*   void k(QNone*);  int* data() const
MemberPool ==
  { CppAndFfiMethod(<<"Q","A","_","f","_","i","n","t">>, <<"f">>, HeaderA, MemberOfA(TRUE, FALSE),
                    FALSE, <<CppArg(<<"a">>, TInt)>>, TConstRefB, "NotApplicable"),
    CppAndFfiMethod(<<"Q","A","_","f">>, <<"f">>, HeaderA, MemberOfA(TRUE, FALSE),
                    FALSE, <<>>, TInt, "NotApplicable"),
    CppAndFfiMethod(<<"Q","A","_","f","_","m","u","t">>, <<"f">>, HeaderA, MemberOfA(FALSE, FALSE),
                    FALSE, <<>>, TRefB, "NotApplicable"),
    CppAndFfiMethod(<<"Q","A","_","g">>, <<"g">>, HeaderA, MemberOfA(FALSE, FALSE),
                    FALSE, <<CppArg(<<"b">>, TConstRefB), CppArg(<<"p">>, TIntPtr)>>, TRefB,
                    "NotApplicable"),
    CppAndFfiMethod(<<"Q","A","_","s">>, <<"s">>, HeaderA, MemberOfA(FALSE, TRUE),
                    FALSE, <<>>, TRefB, "NotApplicable"),
    CppAndFfiMethod(<<"Q","A","_","h","_","s","t","a","c","k">>, <<"h">>, HeaderA,
                    MemberOfA(TRUE, FALSE), FALSE, <<CppArg(<<"a">>, TInt)>>, TValueA, "Stack"),
    CppAndFfiMethod(<<"Q","A","_","h","_","h","e","a","p">>, <<"h">>, HeaderA,
                    MemberOfA(TRUE, FALSE), FALSE, <<CppArg(<<"a">>, TInt)>>, TValueA, "Heap"),
    CppAndFfiMethod(<<"Q","A","_","k">>, <<"k">>, HeaderA, MemberOfA(FALSE, FALSE),
                    FALSE, <<CppArg(<<"x">>, TPtrUnknown)>>, TVoid, "NotApplicable"),
    CppAndFfiMethod(<<"Q","A","_","d","a","t","a">>, <<"d","a","t","a">>, HeaderA,
                    MemberOfA(TRUE, FALSE), FALSE, <<>>, TIntPtr, "NotApplicable"),
    DestructorOfA("Stack"), DestructorOfA("Heap"), DestructorOfA("NotApplicable") }

\* The free functions of a.h:
\*   QB& r(int*);  const QB& r(const QB&, const QB&);  int r(int)
FreeFunctionPool ==
  { CppAndFfiMethod(<<"r","_","p","t","r">>, <<"r">>, HeaderA, None, FALSE,
                    <<CppArg(<<"p">>, TIntPtr)>>, TRefB, "NotApplicable"),
    CppAndFfiMethod(<<"r","_","r","e","f","s">>, <<"r">>, HeaderA, None, FALSE,
                    <<CppArg(<<"b">>, TConstRefB), CppArg(<<"c">>, TConstRefB)>>, TConstRefB,
                    "NotApplicable"),
    CppAndFfiMethod(<<"r","_","i","n","t">>, <<"r">>, HeaderA, None, FALSE,
                    <<CppArg(<<"a">>, TInt)>>, TInt, "NotApplicable") }

\* The lists of at most MaxSiblings different methods of a pool, with at
\* most one destructor.
SiblingLists(pool) ==
  UNION { { s \in [1..n -> pool] :
              /\ \A i, j \in 1..n : i # j => s[i] # s[j]
              /\ \A i, j \in 1..n : (i # j /\ s[i].is_destructor) => ~s[j].is_destructor }
          : n \in 1..MaxSiblings }

ImplOfA == [kind |-> "Impl", target_type |-> RustA]

FreeScope == [kind |-> "Free", target_type |-> <<>>]

\* The calls of process_all_sibling_functions of the model: the methods of
\* QA in the scope of its type, or free functions in the scope of the module.
MethodInputs ==
  { [scope |-> ImplOfA, methods |-> s] : s \in SiblingLists(MemberPool) }
  \cup { [scope |-> FreeScope, methods |-> s] : s \in SiblingLists(FreeFunctionPool) }

TopOfHeaderA == calc_top_module_names({HeaderA})

NoMethodInput == [scope |-> FreeScope, methods |-> <<>>]

NoMethodResult == [call |-> "none", method |-> <<>>, scope |-> FreeScope, r |-> <<>>]

MethodIdle ==
  /\ method_input = NoMethodInput
  /\ method_result = NoMethodResult

(***************************************************************************)
(* Specifications                                                          *)
(***************************************************************************)
InitEnum ==
  /\ pc = "enum_call"
  /\ enum_values \in EnumInputs
  /\ enum_result = NoEnumResult
  /\ ov_methods = <<>>
  /\ ov_result = NoOverloadResult
  /\ ov_final = NoFinalMethods
  /\ RunIdle
  /\ NameIdle
  /\ TypeIdle
  /\ MethodIdle

PrepareEnumValues ==
  /\ pc = "enum_call"
  /\ \E order \in Orders(DistinctValues(enum_values)) :
       enum_result' = prepare_enum_values(enum_values, order)
  /\ pc' = "enum_done"
  /\ UNCHANGED <<enum_values, ovVars, runVars, nameVars, typeVars, methodVars>>

NextEnum == PrepareEnumValues

SpecEnum == InitEnum /\ [][NextEnum]_vars

InitOverload ==
  /\ pc = "overload_call"
  /\ ov_methods \in OverloadInputs
  /\ ov_result = NoOverloadResult
  /\ ov_final = NoFinalMethods
  /\ enum_values = <<>>
  /\ enum_result = NoEnumResult
  /\ RunIdle
  /\ NameIdle
  /\ TypeIdle
  /\ MethodIdle

OverloadFunctions ==
  /\ pc = "overload_call"
  /\ ov_result' = overload_functions(ov_methods)
  /\ pc' = "overload_done"
  /\ UNCHANGED <<ov_methods, ov_final, enumVars, runVars, nameVars, typeVars, methodVars>>

\* The inner loop of step 2 of process_all_sibling_functions for one group of
\* methods of one last name: generate_final_method for every bucket that
\* overload_functions returned; a failure of overload_functions is returned.
GenerateFinalMethods ==
  /\ pc = "overload_done"
  /\ \E scope \in OverloadScopes :
       ov_final' = final_methods_step([ok |-> TRUE, methods |-> <<>>], scope, ov_result)
  /\ pc' = "final_done"
  /\ UNCHANGED <<ov_methods, ov_result, enumVars, runVars, nameVars, typeVars, methodVars>>

NextOverload == OverloadFunctions \/ GenerateFinalMethods

SpecOverload == InitOverload /\ [][NextOverload]_vars

InitRun ==
  /\ pc = "run_start"
  /\ run_types \in SubSeqsOf(RunTypePool, MaxRunTypes)
  /\ run_instantiations \in
       IF \E i \in DOMAIN run_types : run_types[i] = TypeQVec
       THEN SubSeqsOf(InstantiationPool, MaxInstantiations)
       ELSE {<<>>}
  /\ run_methods \in SubSeqsOf(RunMethodPool, MaxRunMethods)
  /\ FreshRunState
  /\ run_no = 1
  /\ first_result = NoRunResult
  /\ enum_values = <<>>
  /\ enum_result = NoEnumResult
  /\ ov_methods = <<>>
  /\ ov_result = NoOverloadResult
  /\ ov_final = NoFinalMethods
  /\ NameIdle
  /\ TypeIdle
  /\ MethodIdle

NextRun ==
  \/ CalcTopModuleNames
  \/ CalcProcessedTypesDirect
  \/ TemplatePass
  \/ TemplateNoProgress
  \/ FinishProcessedTypes
  \/ FilterMethods
  \/ GenerateModule
  \/ FinalCheck
  \/ Restart
  \/ RestartPermuted

SpecRun == InitRun /\ [][NextRun]_vars

InitName ==
  /\ pc = "name_call"
  /\ name_input \in NameInputs
  /\ name_result = NoNameResult
  /\ enum_values = <<>>
  /\ enum_result = NoEnumResult
  /\ ov_methods = <<>>
  /\ ov_result = NoOverloadResult
  /\ ov_final = NoFinalMethods
  /\ RunIdle
  /\ TypeIdle
  /\ MethodIdle

\* remove_prefix_and_convert_case(s, case, prefixes) for a segment s of the
\* name, as calculate_rust_name and include_file_to_module_name call it.
RemovePrefixAndConvertCase ==
  /\ pc = "name_call"
  /\ \E s \in {SplitColons(name_input.name, <<>>)[i] :
                 i \in DOMAIN SplitColons(name_input.name, <<>>)}
              \cup {BeforeDot(name_input.include_file)} :
       \E case \in {"Snake", "Class"} :
         name_result' =
           [ok |-> TRUE, s |-> s, case |-> case,
            text |-> remove_prefix_and_convert_case(s, case, name_input.prefixes),
            parts |-> <<>>]
  /\ pc' = "prefix_done"
  /\ UNCHANGED <<name_input, enumVars, ovVars, runVars, typeVars, methodVars>>

\* The result of calculate_rust_name as the action records it.
NameResult(r) == [ok |-> r.ok, s |-> <<>>, case |-> "", text |-> <<>>, parts |-> r.parts]

\* calculate_rust_name(name, include_file, is_function, None) of a generator
\* with the configured prefix list, whose top_module_names hold the header
\* or do not.
CalculateRustName ==
  /\ pc = "name_call"
  /\ name_input.prefixes = prefixes_to_remove
  /\ name_result' =
       NameResult(calculate_rust_name(
         calc_top_module_names(IF name_input.header_known
                               THEN {name_input.include_file} ELSE {}),
         name_input.name, name_input.include_file, name_input.is_function))
  /\ pc' = "name_done"
  /\ UNCHANGED <<name_input, enumVars, ovVars, runVars, typeVars, methodVars>>

NextName ==
  \/ RemovePrefixAndConvertCase
  \/ CalculateRustName

SpecName == InitName /\ [][NextName]_vars

InitType ==
  /\ pc = "type_call"
  /\ type_input \in TypeInputs
  /\ type_result = NoTypeResult
  /\ enum_values = <<>>
  /\ enum_result = NoEnumResult
  /\ ov_methods = <<>>
  /\ ov_result = NoOverloadResult
  /\ ov_final = NoFinalMethods
  /\ RunIdle
  /\ NameIdle
  /\ MethodIdle

\* ffi_type for a type, as complete_type calls it for a boundary type and as
\* ffi_type calls itself for the types of a function pointer.
FfiType ==
  /\ pc = "type_call"
  /\ type_result' = ffi_type_with_dependencies(type_input.processed, type_input.dependencies,
                                               type_input.cpp_type)
  /\ pc' = "ffi_type_done"
  /\ UNCHANGED <<type_input, enumVars, ovVars, runVars, nameVars, methodVars>>

\* complete_type for the boundary type of a type.
CompleteTypeCall ==
  /\ pc = "type_call"
  /\ HasFfiType(type_input.cpp_type)
  /\ type_result' =
       complete_type_with_place(
         type_input.processed, type_input.dependencies,
         to_cpp_ffi_type(type_input.cpp_type, type_input.argument_meaning = "ReturnValue"),
         type_input.argument_meaning, type_input.is_template_argument,
         type_input.allocation_place)
  /\ pc' = "complete_type_done"
  /\ UNCHANGED <<type_input, enumVars, ovVars, runVars, nameVars, methodVars>>

NextType == FfiType \/ CompleteTypeCall

SpecType == InitType /\ [][NextType]_vars

InitMethod ==
  /\ pc = "method_call"
  /\ method_input \in MethodInputs
  /\ method_result = NoMethodResult
  /\ enum_values = <<>>
  /\ enum_result = NoEnumResult
  /\ ov_methods = <<>>
  /\ ov_result = NoOverloadResult
  /\ ov_final = NoFinalMethods
  /\ RunIdle
  /\ NameIdle
  /\ TypeIdle

\* generate_rust_single_method for one of the methods, in their scope.
GenerateRustSingleMethod ==
  /\ pc = "method_call"
  /\ \E i \in DOMAIN method_input.methods :
       method_result' =
         [call |-> "single", method |-> method_input.methods[i], scope |-> method_input.scope,
          r |-> generate_rust_single_method_full(MethodRegistry, <<>>, TopOfHeaderA,
                                                 method_input.methods[i], method_input.scope)]
  /\ pc' = "single_done"
  /\ UNCHANGED <<method_input, enumVars, ovVars, runVars, nameVars, typeVars>>

\* process_destructor for a destructor among the methods, in any scope.
ProcessDestructor ==
  /\ pc = "method_call"
  /\ \E i \in DOMAIN method_input.methods :
       /\ method_input.methods[i].is_destructor
       /\ \E scope \in {ImplOfA, FreeScope} :
            method_result' =
              [call |-> "destructor", method |-> method_input.methods[i], scope |-> scope,
               r |-> process_destructor(MethodRegistry, <<>>, TopOfHeaderA,
                                        method_input.methods[i], scope)]
  /\ pc' = "destructor_done"
  /\ UNCHANGED <<method_input, enumVars, ovVars, runVars, nameVars, typeVars>>

\* The last names of the methods, the keys of single_rust_methods.
SiblingNames == {to_snake_case(method_input.methods[i].name) : i \in DOMAIN method_input.methods}

\* process_all_sibling_functions for the methods in their scope; the HashMap
\* single_rust_methods yields its keys in any order.
ProcessAllSiblingFunctions ==
  /\ pc = "method_call"
  /\ \E name_order \in Orders(SiblingNames) :
       method_result' =
         [call |-> "siblings", method |-> <<>>, scope |-> method_input.scope,
          r |-> process_all_sibling_functions_full(MethodRegistry, <<>>, TopOfHeaderA,
                                                   method_input.methods, method_input.scope,
                                                   name_order)]
  /\ pc' = "siblings_done"
  /\ UNCHANGED <<method_input, enumVars, ovVars, runVars, nameVars, typeVars>>

NextMethod ==
  \/ GenerateRustSingleMethod
  \/ ProcessDestructor
  \/ ProcessAllSiblingFunctions

SpecMethod == InitMethod /\ [][NextMethod]_vars

(***************************************************************************)
(* Claims about the Overload Resolver (SpecOverload)                       *)
(***************************************************************************)
OverloadDone == pc = "overload_done"

Buckets == ov_result.buckets

\* Position of a method in the input of the call.
InputIndex(m) == CHOOSE k \in DOMAIN ov_methods : ov_methods[k] = m

\* Bucket that holds a method.
BucketOf(m) ==
  CHOOSE b \in DOMAIN Buckets : \E i \in DOMAIN Buckets[b] : Buckets[b][i] = m

\* Equal argument count and every positional pair substitutable at the source
\* type level.
AllSubstitutable(m1, m2) ==
  /\ Len(m1.arguments) = Len(m2.arguments)
  /\ \A i \in DOMAIN m1.arguments :
       can_be_the_same_as(m1.arguments[i].cpp_type, m2.arguments[i].cpp_type)

\* Some position holds two different arguments both named allocation_place_marker.
MarkersDiffer(m1, m2) ==
  /\ Len(m1.arguments) = Len(m2.arguments)
  /\ \E i \in DOMAIN m1.arguments :
       /\ m1.arguments[i].name = MarkerName
       /\ m2.arguments[i].name = MarkerName
       /\ m1.arguments[i] # m2.arguments[i]

SameFlags(m1, m2) ==
  /\ m1.is_unsafe = m2.is_unsafe
  /\ self_arg_kind(m1) = self_arg_kind(m2)

\* Compatibility as the claim words it, with the marker exception of the code.
Compatible(m1, m2) ==
  /\ SameFlags(m1, m2)
  /\ ~(AllSubstitutable(m1, m2) /\ ~MarkersDiffer(m1, m2))

\* Every input method is in exactly one bucket, and each went to the first
\* bucket it was compatible with against every member already there, or
\* opened a new bucket after all existing ones refused it.
FirstFit ==
  /\ \A k \in DOMAIN ov_methods :
       Cardinality({<<b, i>> \in (DOMAIN Buckets) \X (1..Len(ov_methods)) :
                      i \in DOMAIN Buckets[b] /\ Buckets[b][i] = ov_methods[k]}) = 1
  /\ \A b \in DOMAIN Buckets :
       /\ Buckets[b] # <<>>
       /\ \A i \in DOMAIN Buckets[b] :
            /\ \E k \in DOMAIN ov_methods : ov_methods[k] = Buckets[b][i]
            /\ \A j \in DOMAIN Buckets[b] :
                 j < i => /\ InputIndex(Buckets[b][j]) < InputIndex(Buckets[b][i])
                          /\ Compatible(Buckets[b][j], Buckets[b][i])
            /\ \A b2 \in DOMAIN Buckets :
                 b2 < b => \E j \in DOMAIN Buckets[b2] :
                             /\ InputIndex(Buckets[b2][j]) < InputIndex(Buckets[b][i])
                             /\ ~Compatible(Buckets[b2][j], Buckets[b][i])

\* C5 (as amended): after overload_functions has bucketed the methods of one
\* target name, any two members of one bucket have the same caller-trust flag
\* and the same receiver kind, and are not a pair with equal argument count
\* whose positional arguments are all mutually substitutable, except when at
\* some position both arguments are named allocation_place_marker and differ;
\* each method joined the first bucket it was compatible with against every
\* existing member, or started a new bucket.
C5_BucketsPairwiseCompatible ==
  OverloadDone =>
    /\ \A b \in DOMAIN Buckets : \A i, j \in DOMAIN Buckets[b] :
         i # j => /\ SameFlags(Buckets[b][i], Buckets[b][j])
                  /\ ~(AllSubstitutable(Buckets[b][i], Buckets[b][j])
                       /\ ~MarkersDiffer(Buckets[b][i], Buckets[b][j]))
    /\ FirstFit

\* C5 as stated: no two members of one bucket have equal argument count and
\* all positional arguments mutually substitutable.
C5_Original ==
  OverloadDone =>
    \A b \in DOMAIN Buckets : \A i, j \in DOMAIN Buckets[b] :
      i # j => /\ SameFlags(Buckets[b][i], Buckets[b][j])
               /\ ~AllSubstitutable(Buckets[b][i], Buckets[b][j])

\* C5 witness: a bucket with two members, beside a second bucket.
C5_Witness ==
  /\ OverloadDone
  /\ Len(Buckets) >= 2
  /\ \E b \in DOMAIN Buckets : Len(Buckets[b]) >= 2

DiffersOnlyInCount(m1, m2) ==
  /\ SameFlags(m1, m2)
  /\ Len(m1.arguments) # Len(m2.arguments)

\* C6 as stated: two methods that differ only in argument count never share a
\* bucket.
C6_Original ==
  OverloadDone =>
    \A b \in DOMAIN Buckets : \A i, j \in DOMAIN Buckets[b] :
      i # j => ~DiffersOnlyInCount(Buckets[b][i], Buckets[b][j])

\* C6 (as amended): two methods of one target name that differ only in argument
\* count (same receiver kind, same caller-trust flag) are overload-compatible:
\* the later one shares the earlier one's bucket unless it went to an earlier
\* bucket or another, earlier member of that bucket refused it; when they are
\* the only methods of the name they always merge into one bucket.
C6_CountMismatchMerges ==
  OverloadDone =>
    /\ \A i, j \in DOMAIN ov_methods :
         (i < j /\ DiffersOnlyInCount(ov_methods[i], ov_methods[j])) =>
           \/ BucketOf(ov_methods[j]) = BucketOf(ov_methods[i])
           \/ BucketOf(ov_methods[j]) < BucketOf(ov_methods[i])
           \/ \E k \in DOMAIN ov_methods :
                /\ k < j
                /\ k # i
                /\ BucketOf(ov_methods[k]) = BucketOf(ov_methods[i])
                /\ ~Compatible(ov_methods[k], ov_methods[j])
    /\ (Len(ov_methods) = 2 /\ DiffersOnlyInCount(ov_methods[1], ov_methods[2])) =>
         /\ ov_result.ok
         /\ Len(Buckets) = 1
         /\ Len(Buckets[1]) = 2

\* C6 witness: exactly two methods that differ only in argument count were
\* bucketed.
C6_Witness ==
  /\ OverloadDone
  /\ Len(ov_methods) = 2
  /\ DiffersOnlyInCount(ov_methods[1], ov_methods[2])
  /\ Len(Buckets) = 1

\* C7: whenever overload_functions succeeds, the captions it returns for the
\* buckets are pairwise distinct, and there is a strategy under which every
\* member of every bucket yields the caption returned for its bucket.
C7_CaptionsDistinct ==
  (OverloadDone /\ ov_result.ok) =>
    /\ Len(ov_result.names) = Len(Buckets)
    /\ \A b1, b2 \in DOMAIN Buckets : b1 # b2 => ov_result.names[b1] # ov_result.names[b2]
    /\ \E s \in DOMAIN RustMethodCaptionStrategy_all :
         \A b \in DOMAIN Buckets : \A i \in DOMAIN Buckets[b] :
           name_suffix(Buckets[b][i], RustMethodCaptionStrategy_all[s],
                       all_self_args_of(Buckets), b - 1)
             = [ok |-> TRUE, caption |-> ov_result.names[b]]

\* C7 witness: a successful call that returned several buckets, one of them
\* with several members.
C7_Witness ==
  /\ OverloadDone
  /\ ov_result.ok
  /\ Len(Buckets) >= 2
  /\ \E b \in DOMAIN Buckets : Len(Buckets[b]) >= 2

(***************************************************************************)
(* Claims about the Enum Projector (SpecEnum)                              *)
(***************************************************************************)
EnumDone == pc = "enum_done"

Variants == enum_result.variants

\* C9: for an enumeration input with at least 2 distinct values,
\* prepare_enum_values returns at least 2 variants, strictly ascending by
\* value and pairwise distinct in name.
C9_TwoValuesGiveSortedUniqueVariants ==
  (EnumDone /\ Cardinality(DistinctValues(enum_values)) >= 2) =>
    /\ ~enum_result.panicked
    /\ Len(Variants) >= 2
    /\ \A i, j \in DOMAIN Variants :
         i < j => /\ Variants[i].value < Variants[j].value
                  /\ Variants[i].name # Variants[j].name

\* C10: for every input list, the empty list and a list of equal values
\* included, prepare_enum_values returns at least 2 variants.
C10_AlwaysTwoVariants ==
  EnumDone => (~enum_result.panicked /\ Len(Variants) >= 2)

ValuesIn == DistinctValues(enum_values)

\* Position of the first input entry with value v.
FirstIndex(v) ==
  CHOOSE i \in DOMAIN enum_values :
    enum_values[i].value = v /\ \A j \in 1..(i - 1) : enum_values[j].value # v

\* The case-converted, escaped name of the first input entry with value v.
ConvertedName(v) ==
  sanitize_rust_identifier(to_class_case(enum_values[FirstIndex(v)].name))

\* The names of all input entries with value v, in input order.
NamesOfValue(v) ==
  LET same == SelectSeq(enum_values, LAMBDA e : e.value = v)
  IN  [i \in DOMAIN same |-> same[i].name]

\* C11: when the input has exactly 1 distinct value, prepare_enum_values
\* returns exactly 2 variants: the real one, with the case-converted (and
\* escaped) name of the first input entry, untouched by short-name stripping,
\* and one variant flagged as dummy whose value is 0, or 1 if the real value
\* is 0.
C11_OneValueGetsDummy ==
  (EnumDone /\ Cardinality(ValuesIn) = 1) =>
    LET v == enum_values[1].value
    IN  /\ ~enum_result.panicked
        /\ Len(Variants) = 2
        /\ \E i, j \in {1, 2} :
             /\ i # j
             /\ ~Variants[i].is_dummy
             /\ Variants[i].value = v
             /\ Variants[i].name = ConvertedName(v)
             /\ Variants[j].is_dummy
             /\ Variants[j].value = (IF v = 0 THEN 1 ELSE 0)

\* C11 witness: several entries that all have the value 0 were prepared, and
\* the added variant has the value 1.
C11_Witness ==
  /\ EnumDone
  /\ Len(enum_values) >= 2
  /\ ValuesIn = {0}
  /\ Len(Variants) = 2
  /\ Variants[2].is_dummy
  /\ Variants[2].value = 1

\* The input without the entries whose value an earlier entry has.
FirstEntries ==
  LET keep == {i \in DOMAIN enum_values : FirstIndex(enum_values[i].value) = i}
      nth(k) == CHOOSE i \in keep : Cardinality({j \in keep : j < i}) = k - 1
  IN  [k \in 1..Cardinality(keep) |-> enum_values[nth(k)]]

NameAndValue(variants) ==
  [i \in DOMAIN variants |-> [name |-> variants[i].name, value |-> variants[i].value]]

\* C12: whenever prepare_enum_values returns, the variants that are not the
\* dummy are one per distinct value of the input; the documentation of each
\* lists the names of all entries of that value in input order, the first
\* entry first; and names and values of the result are what the call gives
\* for the input without the later entries of a value: a later entry adds an
\* alias only, never a variant and never a rename.
C12_OneVariantPerValueFirstNameWins ==
  (EnumDone /\ ~enum_result.panicked /\ enum_values # <<>>) =>
    /\ \A v \in ValuesIn :
         Cardinality({i \in DOMAIN Variants : Variants[i].value = v /\ ~Variants[i].is_dummy}) = 1
    /\ \A i \in DOMAIN Variants :
         ~Variants[i].is_dummy =>
           /\ Variants[i].value \in ValuesIn
           /\ Variants[i].cpp_docs = NamesOfValue(Variants[i].value)
           /\ Variants[i].cpp_docs[1] = enum_values[FirstIndex(Variants[i].value)].name
    /\ \A order \in Orders(ValuesIn) :
         LET alone == prepare_enum_values(FirstEntries, order)
         IN  /\ ~alone.panicked
             /\ NameAndValue(alone.variants) = NameAndValue(Variants)

\* C12 witness: a later entry repeats the value of an earlier one under a name
\* that converts differently, among several values.
C12_Witness ==
  /\ EnumDone
  /\ ~enum_result.panicked
  /\ Cardinality(ValuesIn) >= 2
  /\ \E i, j \in DOMAIN enum_values :
       /\ i < j
       /\ enum_values[i].value = enum_values[j].value
       /\ to_class_case(enum_values[i].name) # to_class_case(enum_values[j].name)
  /\ \E k \in DOMAIN Variants : Len(Variants[k].cpp_docs) = 2

\* The word sequence of the converted name of the variant of each value.
ConvertedWords == [v \in ValuesIn |-> WordIterator(ConvertedName(v))]

\* All of the word sequences start with the same k words / end with the same
\* k words.
AgreeLead(words, k) ==
  /\ \A v \in DOMAIN words : Len(words[v]) >= k
  /\ \A v, w \in DOMAIN words : SubSeq(words[v], 1, k) = SubSeq(words[w], 1, k)

AgreeTrail(words, k) ==
  /\ \A v \in DOMAIN words : Len(words[v]) >= k
  /\ \A v, w \in DOMAIN words :
       SubSeq(words[v], Len(words[v]) - k + 1, Len(words[v]))
         = SubSeq(words[w], Len(words[w]) - k + 1, Len(words[w]))

MaxWords == 4

\* Length of the longest word sequence that leads / trails all of them.
CommonLead(words) ==
  CHOOSE k \in 0..MaxWords : AgreeLead(words, k) /\ ~AgreeLead(words, k + 1)

CommonTrail(words) ==
  CHOOSE k \in 0..MaxWords : AgreeTrail(words, k) /\ ~AgreeTrail(words, k + 1)

\* The leading and the trailing common words of no name overlap.
StripInBounds(words, lead, trail) == \A v \in DOMAIN words : lead + trail <= Len(words[v])

\* The words of each variant between the common leading and the common
\* trailing words, joined.
ShortNames(words, lead, trail) ==
  [v \in DOMAIN words |-> Concat(SubSeq(words[v], lead + 1, Len(words[v]) - trail))]

\* Some short name is empty or begins with a decimal digit.
StrippingRefused(short) == \E v \in DOMAIN short : short[v] = <<>> \/ StartsWithDigit(short[v])

\* The short names of the input of the call; <<>> when the common leading and
\* trailing words of some name overlap.
EnumShortNames ==
  IF StripInBounds(ConvertedWords, CommonLead(ConvertedWords), CommonTrail(ConvertedWords))
  THEN ShortNames(ConvertedWords, CommonLead(ConvertedWords), CommonTrail(ConvertedWords))
  ELSE <<>>

VariantsNamed(names) ==
  /\ ~enum_result.panicked
  /\ Len(Variants) = Cardinality(ValuesIn)
  /\ \A i \in DOMAIN Variants : Variants[i].name = names[Variants[i].value]

ShortNamesGiven(short) ==
  (short # <<>> /\ ~StrippingRefused(short)) =>
    VariantsNamed([v \in DOMAIN short |-> sanitize_rust_identifier(short[v])])

\* C13: when more than one variant remains and the optimization is not
\* aborted, the name of every variant is its word sequence without the longest
\* word sequence that leads all names and without the longest word sequence
\* that trails all names (escaped if that is a reserved word).
C13_ShortNamesStripCommonWords ==
  (EnumDone /\ Cardinality(ValuesIn) >= 2) => ShortNamesGiven(EnumShortNames)

RenamedWithTrail(short) ==
  /\ short # <<>>
  /\ ~StrippingRefused(short)
  /\ \A i \in DOMAIN Variants : Variants[i].name # ConvertedName(Variants[i].value)

\* C13 witness: every variant was renamed, and trailing common words were
\* removed.
C13_Witness ==
  /\ EnumDone
  /\ Cardinality(ValuesIn) >= 2
  /\ CommonTrail(ConvertedWords) >= 1
  /\ RenamedWithTrail(EnumShortNames)

OriginalNamesKept(short) ==
  (short # <<>> /\ StrippingRefused(short)) =>
    VariantsNamed([v \in ValuesIn |-> ConvertedName(v)])

\* C14: the short-name optimization is all-or-nothing: when stripping the
\* common words would leave some variant with an empty name or with a name
\* that begins with a decimal digit, every variant keeps its case-converted
\* original name.
C14_RefusedStrippingKeepsAllNames ==
  (EnumDone /\ Cardinality(ValuesIn) >= 2) => OriginalNamesKept(EnumShortNames)

DigitAndProperName(short) ==
  /\ short # <<>>
  /\ \E v \in DOMAIN short : StartsWithDigit(short[v])
  /\ \E v \in DOMAIN short : short[v] # <<>> /\ ~StartsWithDigit(short[v])

\* C14 witness: stripping would leave one variant with a name that begins with
\* a digit and another with a proper name, and a result was returned.
C14_Witness ==
  /\ EnumDone
  /\ Cardinality(ValuesIn) >= 2
  /\ ~enum_result.panicked
  /\ DigitAndProperName(EnumShortNames)

\* C27: prepare_enum_values returns a result for every input and never
\* aborts; the slice that strips the common leading and trailing words stays
\* in bounds.
C27_PrepareEnumValuesNeverPanics ==
  EnumDone => ~enum_result.panicked

(***************************************************************************)
(* Claims about a run of the generator (SpecRun)                           *)
(***************************************************************************)
RunOk == pc = "run_done" /\ run_result.status = "Ok"

\* The class type of a member is that of a registered type, name and template
\* arguments.
ClassRegistered(method) ==
  \/ method.class_membership = None
  \/ \E i \in DOMAIN processed_types :
       ClassBase(processed_types[i].cpp_name, processed_types[i].cpp_template_arguments)
         = method.class_membership[2].class_type

\* The type has a wrapper in the own registry or in that of a dependency.
Resolvable(t) ==
  \/ t.kind \in {"Void", "Numeric"}
  \/ \E e \in {processed_types[i] : i \in DOMAIN processed_types}
               \cup {dependency_types[i] : i \in DOMAIN dependency_types} :
       /\ e.cpp_name = t.name
       /\ t.kind = "Class" => e.cpp_template_arguments = t.template_arguments

\* The C names of the methods that the methods of a list of Rust methods call.
VariantsOf(rust_methods) ==
  UNION { {rust_methods[i].variants[v] : v \in DOMAIN rust_methods[i].variants} :
            i \in DOMAIN rust_methods }

\* The types of a module that wrap a C++ type.
WrapperTypes(module) ==
  {module.types[t] : t \in {k \in DOMAIN module.types :
                              module.types[k].kind \in {"Struct", "Enum"}}}

\* The C names of all methods emitted in a list of modules, at any depth.
RECURSIVE EmittedVariants(_)
EmittedVariants(mods) ==
  UNION { VariantsOf(mods[m].functions)
            \cup UNION {VariantsOf(t.methods) : t \in WrapperTypes(mods[m])}
            \cup EmittedVariants(mods[m].submodules) : m \in DOMAIN mods }

Logged(kind, subject) ==
  \E i \in DOMAIN run_log : run_log[i] = LogEntry(kind, subject)

InCppMethods(method) == \E i \in DOMAIN cpp_methods : cpp_methods[i] = method

\* C1: once the methods are filtered, a method of a class type that is not
\* registered is not among the methods handed to the modules, is logged as
\* skipped and is never emitted; and every emitted method has a registered
\* class type and argument and return types that resolve in the own registry
\* or in that of a dependency.
C1_UnavailableDroppedEmittedResolvable ==
  \A i \in DOMAIN run_methods :
    /\ ((pc = "run_modules" \/ RunOk) /\ ~ClassRegistered(run_methods[i])) =>
         /\ ~InCppMethods(run_methods[i])
         /\ Logged("method_skipped", run_methods[i].c_name)
    /\ run_methods[i].c_name \in EmittedVariants(modules) =>
         /\ ClassRegistered(run_methods[i])
         /\ Resolvable(run_methods[i].return_type)
         /\ \A a \in DOMAIN run_methods[i].arguments :
              Resolvable(run_methods[i].arguments[a].argument_type)

\* A successful run that dropped a method of an unregistered class, did not
\* emit a method with an unresolvable argument, and emitted another method.
C1_Witness ==
  /\ RunOk
  /\ \E i \in DOMAIN run_methods :
       /\ ~ClassRegistered(run_methods[i])
       /\ run_methods[i].c_name \notin EmittedVariants(modules)
  /\ \E i \in DOMAIN run_methods : run_methods[i].c_name \in EmittedVariants(modules)

\* A pass of the while loop made no progress and items are pending.
NoProgress == pc = "run_templates" /\ unnamed_items # <<>> /\ ~any_success

PendingSubjects ==
  {ClassBase(unnamed_items[i].cpp_name, unnamed_items[i].cpp_template_arguments) :
     i \in DOMAIN unnamed_items}

Registered(subject) ==
  \E i \in DOMAIN processed_types :
    ClassBase(processed_types[i].cpp_name, processed_types[i].cpp_template_arguments) = subject

TypesLeft ==
  \E i \in DOMAIN processed_types : ~is_declared_in(processed_types[i], modules)

\* The step of run() after the last top level module was generated.
AfterLastModule == pc = "run_modules" /\ module_names = <<>>

\* C3: after the last top level module, run() returns an error and no output
\* if a method is left unconsumed or a registered type is declared in no
\* module, and returns the output if nothing is left.
C3_LeftoversFailTheRun ==
  [][AfterLastModule =>
       /\ pc' = "run_done"
       /\ (cpp_methods # <<>> \/ TypesLeft) =>
            (run_result'.status = "Err" /\ run_result'.output = <<>>)
       /\ (cpp_methods = <<>> /\ ~TypesLeft) =>
            /\ run_result'.status = "Ok"
            /\ run_result'.output =
                 << [modules |-> modules, processed_types |-> processed_types] >>]_vars

\* run() failed because a method was left after the last module.
C3_Witness ==
  /\ pc = "run_done"
  /\ module_names = <<>>
  /\ cpp_methods # <<>>
  /\ run_result = Failed("unprocessed cpp methods left")

\* The module tree of a result, <<>> for a run that failed.
ModuleTree(result) ==
  IF result.output = <<>> THEN <<>> ELSE result.output[1].modules

\* C4: the second run of the projection on the same input, in the same or in
\* another order of types and methods, ends as the first did and yields the
\* same module tree.
C4_SecondRunYieldsSameTree ==
  (pc = "run_done" /\ run_no = 2) =>
    /\ run_result.status = first_result.status
    /\ ModuleTree(run_result) = ModuleTree(first_result)

\* The last names of the methods of one scope are pairwise different.
UniqueMethodNames(rust_methods) ==
  \A i, j \in DOMAIN rust_methods :
    i # j => rust_methods[i].name # rust_methods[j].name

\* No two methods of one scope share a name, in these modules and below.
RECURSIVE UniqueInModules(_)
UniqueInModules(mods) ==
  \A m \in DOMAIN mods :
    /\ UniqueMethodNames(mods[m].functions)
    /\ \A t \in WrapperTypes(mods[m]) : UniqueMethodNames(t.methods)
    /\ UniqueInModules(mods[m].submodules)

\* C8: in a successful run no two registered types have the same target path
\* and no two methods of one scope have the same final name.
C8_TargetNamesUnique ==
  RunOk =>
    /\ \A i, j \in DOMAIN processed_types :
         i # j => processed_types[i].rust_name # processed_types[j].rust_name
    /\ UniqueInModules(modules)

(***************************************************************************)
(* Claims about the pending methods during module assembly (SpecRun)       *)
(***************************************************************************)
\* `after` is `before` without some of its elements, the others in their order.
ShrunkInOrder(before, after) ==
  after = SelectSeq(before, LAMBDA m : \E i \in DOMAIN after : after[i] = m)

\* The C names of the methods that are in `before` and not in `after`.
TakenNames(before, after) ==
  {before[i].c_name : i \in {k \in DOMAIN before : \A j \in DOMAIN after : after[j] # before[k]}}

\* How often the C name c is a variant of one of `rust_methods`.
TimesIn(rust_methods, c) ==
  Cardinality({<<i, v>> \in (DOMAIN rust_methods) \X (1..MaxRunMethods) :
                 v \in DOMAIN rust_methods[i].variants /\ rust_methods[i].variants[v] = c})

TimesInType(type, c) ==
  IF type.kind \in {"Struct", "Enum"} THEN TimesIn(type.methods, c) ELSE 0

RECURSIVE TimesInTypes(_, _)
TimesInTypes(types, c) ==
  IF types = <<>> THEN 0 ELSE TimesInType(Head(types), c) + TimesInTypes(Tail(types), c)

\* How often the C name c is emitted in a list of modules, at any depth.
RECURSIVE TimesEmitted(_, _)
TimesEmitted(mods, c) ==
  IF mods = <<>> THEN 0
  ELSE TimesIn(Head(mods).functions, c)
       + TimesInTypes(Head(mods).types, c)
       + TimesEmitted(Head(mods).submodules, c)
       + TimesEmitted(Tail(mods), c)

\* One turn of the loop over the module names only takes methods out of the
\* pending list, and what it emits it has taken out in this turn.
ModuleStepOnlyTakes ==
  [][pc = "run_modules" =>
       /\ ShrunkInOrder(cpp_methods, cpp_methods')
       /\ EmittedVariants(modules) \subseteq EmittedVariants(modules')
       /\ (EmittedVariants(modules') \ EmittedVariants(modules))
            \subseteq TakenNames(cpp_methods, cpp_methods')]_vars

\* C30: during module assembly the list of the pending methods only shrinks
\* and keeps its order; a method is emitted by the step that takes it out of
\* the list, at most once in the whole module tree, and a pending method is
\* emitted nowhere; after a successful run the list is empty.
C30_PendingMethodsOnlyShrink ==
  /\ ModuleStepOnlyTakes
  /\ [](\A i \in DOMAIN run_methods :
          TimesEmitted(modules, run_methods[i].c_name)
            = IF run_methods[i].c_name \in EmittedVariants(modules) THEN 1 ELSE 0)
  /\ [](\A i \in DOMAIN cpp_methods : cpp_methods[i].c_name \notin EmittedVariants(modules))
  /\ [](RunOk => cpp_methods = <<>>)

\* C30 witness: a successful run in which two methods were emitted and two
\* modules were generated.
C30_Witness ==
  /\ RunOk
  /\ Len(modules) = 2
  /\ Cardinality(EmittedVariants(modules)) = 2
  /\ Len(run_methods) = 2

(***************************************************************************)
(* Claims about the Type Bridge (SpecType)                                 *)
(***************************************************************************)
FfiTypeDone == pc = "ffi_type_done"

CompleteTypeDone == pc = "complete_type_done"

\* All registries in the order of the search: the own one, then those of the
\* dependencies.
AllRegistries(input) == input.processed \o Concat(input.dependencies)

\* The entries registered for the C++ type t, in the order of the search.
RegisteredFor(input, t) ==
  SelectSeq(AllRegistries(input),
            LAMBDA x : /\ x.cpp_name = t.base.name
                       /\ (t.base.kind = "Class" =>
                             x.cpp_template_arguments = t.base.template_arguments))

\* The types that the claim C24 says ffi_type rejects.
RECURSIVE MustBeRejected(_, _)
MustBeRejected(input, t) ==
  \/ t.indirection \notin {"None", "Ptr", "PtrPtr"}
  \/ /\ t.base.kind = "FunctionPointer"
     /\ \/ t.base.allows_variadic_arguments
        \/ MustBeRejected(input, t.base.return_type)
        \/ \E i \in DOMAIN t.base.arguments : MustBeRejected(input, t.base.arguments[i])
  \/ /\ t.base.kind \in {"Enum", "Class"}
     /\ RegisteredFor(input, t) = <<>>

\* A function pointer type carries an indirection that lines 684-686 do not
\* name, itself or in a function pointer among its parts.
RECURSIVE FunctionPointerBeyondPtrPtr(_)
FunctionPointerBeyondPtrPtr(t) ==
  /\ t.base.kind = "FunctionPointer"
  /\ \/ t.indirection \notin {"None", "Ptr", "PtrPtr"}
     \/ FunctionPointerBeyondPtrPtr(t.base.return_type)
     \/ \E i \in DOMAIN t.base.arguments : FunctionPointerBeyondPtrPtr(t.base.arguments[i])

\* An enum or class that is registered gets the Rust name of the first entry
\* in the order of the search.
FirstRegisteredNames ==
  (/\ FfiTypeDone
   /\ type_input.cpp_type.base.kind \in {"Enum", "Class"}
   /\ type_result.status = "Ok") =>
    /\ RegisteredFor(type_input, type_input.cpp_type) # <<>>
    /\ type_result.value.base = RegisteredFor(type_input, type_input.cpp_type)[1].rust_name

\* C24: ffi_type returns an error for every type with an indirection beyond
\* pointer to pointer, for a variadic function pointer, for a function pointer
\* with a rejected argument or return type and for an enum or class that is
\* in no registry; a registered one is found in the own registry first, then
\* in the dependencies in their order.
C24_FfiTypeRejects ==
  /\ (FfiTypeDone /\ MustBeRejected(type_input, type_input.cpp_type)) =>
        type_result.status = "Err"
  /\ FirstRegisteredNames

\* What holds of C24: the same, for all types but the function pointers that
\* carry such an indirection themselves.
C24_RejectsButFunctionPointerIndirection ==
  /\ (/\ FfiTypeDone
      /\ MustBeRejected(type_input, type_input.cpp_type)
      /\ ~FunctionPointerBeyondPtrPtr(type_input.cpp_type)) =>
        type_result.status = "Err"
  /\ FirstRegisteredNames

\* A function pointer whose argument is a reference to a function pointer is
\* given a Rust type.
C24_FunctionPointerReferenceAccepted ==
  /\ FfiTypeDone
  /\ type_input.cpp_type.base.kind = "FunctionPointer"
  /\ \E i \in DOMAIN type_input.cpp_type.base.arguments :
        /\ type_input.cpp_type.base.arguments[i].base.kind = "FunctionPointer"
        /\ type_input.cpp_type.base.arguments[i].indirection = "Ref"
  /\ type_result.status = "Ok"

\* The call is complete_type for a value returned through a pointer, and
\* ffi_type has found the type.
ValueReturn ==
  /\ CompleteTypeDone
  /\ type_input.argument_meaning = "ReturnValue"
  /\ type_input.cpp_type.base.kind = "Class"
  /\ type_input.cpp_type.base.name # "QFlags"
  /\ type_input.cpp_type.indirection = "None"
  /\ RegisteredFor(type_input, type_input.cpp_type) # <<>>

\* The entry that ffi_type has found for the returned type.
ReturnedInfo == RegisteredFor(type_input, type_input.cpp_type)[1]

PlainValue(rust_name) == RustTypeCommon(rust_name, None, "None", None, FALSE, FALSE)

\* The outcome that the claim C23 names for a value returned through a
\* pointer.
ValueReturnAsClaimed ==
  IF \/ ReturnedInfo.kind = "Enum"
     \/ ~ReturnedInfo.is_deletable
     \/ type_input.allocation_place = "NotApplicable"
  THEN type_result.status = "Err"
  ELSE /\ type_result.status = "Ok"
       /\ type_result.value.rust_api_type =
            (IF type_input.allocation_place = "Stack"
             THEN PlainValue(ReturnedInfo.rust_name)
             ELSE RustTypeCommon(
                    << <<"c","p","p","_","u","t","i","l","s">>, <<"C","p","p","B","o","x">> >>,
                    Some(<<PlainValue(ReturnedInfo.rust_name)>>), "None", None, FALSE, FALSE))
       /\ type_result.value.rust_api_to_c_conversion =
            (IF type_input.allocation_place = "Stack" THEN "ValueToPtr" ELSE "CppBoxToPtr")

\* C23: a value returned through a pointer becomes the plain value with
\* ValueToPtr for Stack and CppBox<T> with CppBoxToPtr for Heap; the call
\* fails for NotApplicable and when the registered type is not deletable or
\* is an enum.
C23_ValueReturnByAllocationPlace == ValueReturn => ValueReturnAsClaimed

\* No other entry of the registries has the Rust name of the returned type.
RustNameUnique ==
  \A i \in DOMAIN AllRegistries(type_input) :
    AllRegistries(type_input)[i].rust_name = ReturnedInfo.rust_name =>
      AllRegistries(type_input)[i] = ReturnedInfo

\* What holds of C23: the same, when the Rust name of the type is unique.
C23_HoldsForUniqueRustName == (ValueReturn /\ RustNameUnique) => ValueReturnAsClaimed

\* detail::Foo, which is not deletable, is returned by value on the stack
\* although Foo, registered before it under the same Rust name, is deletable.
C23_NotDeletableReturned ==
  /\ ValueReturn
  /\ type_input.allocation_place = "Stack"
  /\ ~ReturnedInfo.is_deletable
  /\ type_result.status = "Ok"

(***************************************************************************)
(* Claims about the Method Projector (SpecMethod)                          *)
(***************************************************************************)
SingleDone == pc = "single_done" /\ method_result.r.status = "Ok"

\* The RustSingleMethod that the call has returned.
Single == method_result.r.value

ReturnsReference == Single.return_type.variant = "Common" /\ is_ref(Single.return_type)

\* The positions of the reference arguments of the method.
ReferenceArguments == {i \in DOMAIN Single.arguments : is_ref(Single.arguments[i])}

\* The lifetime l<n> where n reference arguments stand before argument i.
LifetimeInOrder(i) ==
  Some(<<"l">> \o NatToString(Cardinality({j \in ReferenceArguments : j < i})))

StaticWarningLogged ==
  \E k \in DOMAIN method_result.r.log :
    method_result.r.log[k] = LogEntry("assuming_static_lifetime", Single.c_name)

\* C22: a returned reference always has a lifetime; the reference arguments
\* get l0, l1, ... in their order and the return type l0; without a
\* reference argument the return type gets `static` and a warning is logged.
\* No argument has a lifetime before (complete_type sets none), so the
\* lifetime of the return type is never taken from an argument.
C22_ReturnedReferenceHasLifetime ==
  (SingleDone /\ ReturnsReference) =>
    /\ Single.return_type.lifetime # None
    /\ IF ReferenceArguments = {}
       THEN /\ Single.return_type.lifetime = Some(<<"s","t","a","t","i","c">>)
            /\ StaticWarningLogged
       ELSE /\ Single.return_type.lifetime = Some(<<"l","0">>)
            /\ \A i \in ReferenceArguments : Single.arguments[i].lifetime = LifetimeInOrder(i)
            /\ ~StaticWarningLogged

\* C22 witness: QB& g(const QB&, int*) of QA: self gets l0, b gets l1 and
\* the returned reference l0.
C22_Witness ==
  /\ SingleDone
  /\ ReturnsReference
  /\ Len(Single.arguments) = 3
  /\ Single.arguments[1].lifetime = Some(<<"l","0">>)
  /\ Single.arguments[2].lifetime = Some(<<"l","1">>)
  /\ Single.arguments[3].lifetime = None
  /\ Single.return_type.lifetime = Some(<<"l","0">>)

\* C26: is_unsafe is set exactly when an argument other than self is an
\* unsafe argument; neither self nor the return type sets it.
C26_UnsafeByOtherArguments ==
  SingleDone =>
    /\ Single.is_unsafe =
         (\E i \in DOMAIN Single.arguments :
            /\ Single.arguments[i].name # SelfName
            /\ is_unsafe_argument(Single.arguments[i]))
    /\ \A i \in DOMAIN Single.arguments :
         Single.arguments[i].name = SelfName => ~is_unsafe_argument(Single.arguments[i])

\* C26 witness: int* data() const of QA returns a pointer, has a receiver
\* and is not unsafe.
C26_Witness ==
  /\ SingleDone
  /\ Single.return_type.variant = "Common"
  /\ Single.return_type.indirection = "Ptr"
  /\ Len(Single.arguments) = 1
  /\ Single.arguments[1].name = SelfName
  /\ ~Single.is_unsafe

DestructorDone == pc = "destructor_done"

\* The names of the traits Drop and cpp_utils::CppDeletable.
DropTrait == << <<"D","r","o","p">> >>

CppDeletableTrait ==
  << <<"c","p","p","_","u","t","i","l","s">>, <<"C","p","p","D","e","l","e","t","a","b","l","e">> >>

\* What process_destructor returns, by scope and allocation place.
DestructorOutcome ==
  DestructorDone =>
    IF method_result.scope.kind # "Impl" \/ method_result.method.allocation_place = "NotApplicable"
    THEN method_result.r.status = "Err"
    ELSE /\ method_result.r.status = "Ok"
         /\ method_result.r.value.target_type = method_result.scope.target_type
         /\ IF method_result.method.allocation_place = "Stack"
            THEN /\ method_result.r.value.trait_type = DropTrait
                 /\ Len(method_result.r.value.methods) = 1
                 /\ method_result.r.value.methods[1].name = << <<"d","r","o","p">> >>
                 /\ method_result.r.value.methods[1].variants = <<method_result.method.c_name>>
            ELSE /\ method_result.r.value.trait_type = CppDeletableTrait
                 /\ method_result.r.value.extra = Some(method_result.method.c_name)
                 /\ method_result.r.value.methods = <<>>

SiblingsDone == pc = "siblings_done"

\* The methods of the call for which process_destructor fails.
FailingDestructors ==
  {i \in DOMAIN method_input.methods :
     /\ method_input.methods[i].is_destructor
     /\ process_destructor(MethodRegistry, <<>>, TopOfHeaderA, method_input.methods[i],
                           method_input.scope).status # "Ok"}

\* The methods of the call, no destructors, that generate_rust_single_method
\* converts.
ConvertedSiblings ==
  {i \in DOMAIN method_input.methods :
     /\ ~method_input.methods[i].is_destructor
     /\ generate_rust_single_method_full(MethodRegistry, <<>>, TopOfHeaderA,
          method_input.methods[i], method_input.scope).status = "Ok"}

\* The C names that the methods of the result call.
SiblingVariants ==
  UNION {{method_result.r.methods[k].variants[v] : v \in DOMAIN method_result.r.methods[k].variants}
           : k \in DOMAIN method_result.r.methods}

\* A destructor that fails is logged and leaves no trait implementation; the
\* other methods of the call are in the result.
DestructorFailureIsLocal ==
  (SiblingsDone /\ FailingDestructors # {}) =>
    /\ \A i \in FailingDestructors :
         \E k \in DOMAIN method_result.r.log :
           method_result.r.log[k]
             = LogEntry("failed_to_generate_destructor", method_input.methods[i].c_name)
    /\ method_result.r.status = "Ok" =>
         /\ method_result.r.trait_impls = <<>>
         /\ SiblingVariants = {method_input.methods[i].c_name : i \in ConvertedSiblings}

\* C25: process_destructor returns a Drop implementation with the one method
\* drop for Stack, a CppDeletable implementation with the C name of the
\* destructor and no method for Heap, and an error for NotApplicable and
\* outside the scope of a type; a failing destructor is logged and dropped
\* and its siblings are processed.
C25_DestructorImplementations == DestructorOutcome /\ DestructorFailureIsLocal

\* C25 witness: the destructor of QA without an allocation place beside two
\* other methods, which are both in the result.
C25_Witness ==
  /\ SiblingsDone
  /\ FailingDestructors # {}
  /\ method_result.r.status = "Ok"
  /\ Cardinality(SiblingVariants) = 2

\* C25 witness of the implementations: Drop with the method drop.
DropImplementationMade ==
  /\ DestructorDone
  /\ method_result.r.status = "Ok"
  /\ method_result.r.value.trait_type = DropTrait

\* C28: the asserts of generate_final_method hold for every bucket of more
\* than one method that overload_functions returns: the call does not panic.
C28_FinalMethodAssertsHold == SiblingsDone => method_result.r.status # "Panicked"

\* The assert on the self argument fails: `int f() const` and
\* `const QB& f(int) const` of QA are in one bucket, the self argument of the
\* first has no lifetime and that of the second has l0.
C28_SelfArgumentsDiffer ==
  /\ SiblingsDone
  /\ method_result.r.status = "Panicked"
  /\ Len(method_input.methods) = 2
  /\ \A i \in DOMAIN method_input.methods :
        method_input.methods[i].c_name \in {<<"Q","A","_","f">>, <<"Q","A","_","f","_","i","n","t">>}

(***************************************************************************)
(* Claims about the Name Resolver (SpecName)                               *)
(***************************************************************************)
PrefixDone == pc = "prefix_done"

NameDone == pc = "name_done"

\* The words of s that a conversion keeps under the prefix list: all but the
\* first word if s has more than one word, the second word does not begin
\* with a decimal digit and the first word is one of the prefixes; else all.
KeptWords(s, prefixes) ==
  LET words == WordIterator(s)
  IN  IF /\ Len(words) > 1
         /\ ~IsDigit(words[2][1])
         /\ words[1] \in {prefixes[p] : p \in DOMAIN prefixes}
      THEN SubSeq(words, 2, Len(words))
      ELSE words

Converted(words, case) ==
  IF case = "Snake" THEN words_to_snake_case(words) ELSE words_to_class_case(words)

\* The cases of remove_prefix_and_convert_case_test.
PrefixExample(s, prefixes, snake, class) ==
  (name_result.s = s /\ name_input.prefixes = prefixes) =>
    name_result.text = (IF name_result.case = "Snake" THEN snake ELSE class)

\* C15: remove_prefix_and_convert_case removes the first word of a name if and
\* only if the name has more than one word, the second word does not begin
\* with a decimal digit, and the first word equals one of the prefixes; it
\* removes at most that word and converts the remaining words to class case
\* or to snake case.  QDirIterator with q/Q/Qt gives DirIterator and
\* dir_iterator; Qt3DWindow and OneTwo give what they give with no prefixes.
C15_PrefixRemovedIffAllowed ==
  PrefixDone =>
    /\ name_result.text =
         Converted(KeptWords(name_result.s, name_input.prefixes), name_result.case)
    /\ PrefixExample(<<"Q","D","i","r","I","t","e","r","a","t","o","r">>, prefixes_to_remove,
                     <<"d","i","r","_","i","t","e","r","a","t","o","r">>, <<"D","i","r","I","t","e","r","a","t","o","r">>)
    /\ PrefixExample(<<"Q","D","i","r","I","t","e","r","a","t","o","r">>, <<>>,
                     <<"q","_","d","i","r","_","i","t","e","r","a","t","o","r">>, <<"Q","D","i","r","I","t","e","r","a","t","o","r">>)
    /\ \A prefixes \in PrefixLists :
         /\ PrefixExample(<<"Q","t","3","D","W","i","n","d","o","w">>, prefixes,
                          <<"q","t","_","3","d","_","w","i","n","d","o","w">>, <<"Q","t","3","D","W","i","n","d","o","w">>)
         /\ PrefixExample(<<"O","n","e","T","w","o">>, prefixes,
                          <<"o","n","e","_","t","w","o">>, <<"O","n","e","T","w","o">>)

\* C15 witness: Qt3DWindow was converted under the prefixes q, Q, Qt and kept
\* its first word Qt, which is a prefix, because of the digit after it.
C15_Witness ==
  /\ PrefixDone
  /\ name_result.s = <<"Q","t","3","D","W","i","n","d","o","w">>
  /\ name_input.prefixes = prefixes_to_remove
  /\ name_result.case = "Snake"
  /\ name_result.text = <<"q","t","_","3","d","_","w","i","n","d","o","w">>

\* The segments of the call's name, the last one apart.
NameSegments == SplitColons(name_input.name, <<>>)

\* One snake case segment per namespace of the name that is not filtered.
NamespaceSegments ==
  LET front == SubSeq(NameSegments, 1, Len(NameSegments) - 1)
      kept  == SelectSeq(front, LAMBDA part :
                 part \notin {filtered_namespaces[i] : i \in DOMAIN filtered_namespaces})
  IN  [i \in DOMAIN kept |-> Converted(KeptWords(kept[i], prefixes_to_remove), "Snake")]

ModuleSegment ==
  Converted(KeptWords(BeforeDot(name_input.include_file), prefixes_to_remove), "Snake")

FinalSegment ==
  Converted(KeptWords(NameSegments[Len(NameSegments)], prefixes_to_remove),
            IF name_input.is_function THEN "Snake" ELSE "Class")

\* The segments `middle` between the module and the final segment, without
\* their first one if that repeats the module.
Collapsed(module, middle) ==
  IF middle # <<>> /\ middle[1] = module THEN SubSeq(middle, 2, Len(middle)) ELSE middle

\* The cases of calculate_rust_name_test.
NameExample(name, include_file, is_function, parts) ==
  (/\ name_input.name = name
   /\ name_input.include_file = include_file
   /\ name_input.is_function = is_function) => name_result.parts = <<crate_name>> \o parts

NameExamples ==
  /\ NameExample(<<"m","y","F","u","n","c","1">>, <<"Q","t","G","l","o","b","a","l">>, TRUE,
                 << <<"g","l","o","b","a","l">>, <<"m","y","_","f","u","n","c","1">> >>)
  /\ NameExample(<<"Q","P","o","i","n","t","F">>, <<"Q","P","o","i","n","t","F">>, FALSE,
                 << <<"p","o","i","n","t","_","f">>, <<"P","o","i","n","t","F">> >>)
  /\ NameExample(<<"Q","S","t","r","i","n","g","L","i","s","t",":",":","I","t","e","r","a","t","o","r">>,
                 <<"Q","S","t","r","i","n","g","L","i","s","t">>, FALSE,
                 << <<"s","t","r","i","n","g","_","l","i","s","t">>, <<"I","t","e","r","a","t","o","r">> >>)
  /\ NameExample(<<"Q","S","t","r","i","n","g","L","i","s","t",":",":","I","t","e","r","a","t","o","r">>,
                 <<"Q","S","t","r","i","n","g">>, FALSE,
                 << <<"s","t","r","i","n","g">>, <<"s","t","r","i","n","g","_","l","i","s","t">>, <<"I","t","e","r","a","t","o","r">> >>)
  /\ NameExample(<<"n","s",":",":","f","u","n","c","1">>, <<"Q","R","e","c","t">>, TRUE,
                 << <<"r","e","c","t">>, <<"n","s">>, <<"f","u","n","c","1">> >>)

\* C16 as stated: the path is the crate name, the module of the declaring
\* unit, the namespace segments (the first one dropped if it equals the
\* module), the final segment.
C16_Original ==
  (NameDone /\ name_result.ok) =>
    name_result.parts =
      <<crate_name, ModuleSegment>> \o Collapsed(ModuleSegment, NamespaceSegments)
        \o <<FinalSegment>>

\* C16 (as amended): calculate_rust_name returns the crate name, the module of
\* the declaring unit, the segment raw if the declaring unit is "slots", one
\* snake case segment per namespace segment that is not filtered, in order,
\* and the converted final segment; when the segment right after the module
\* equals the module it appears only once, and the final segment is never the
\* one removed.
C16_PathOfCrateModuleNamespacesName ==
  (NameDone /\ name_result.ok) =>
    /\ name_result.parts =
         <<crate_name, ModuleSegment>>
           \o Collapsed(ModuleSegment,
                        (IF name_input.include_file = <<"s","l","o","t","s">>
                         THEN << <<"r","a","w">> >> ELSE <<>>) \o NamespaceSegments)
           \o <<FinalSegment>>
    /\ name_result.parts[Len(name_result.parts)] = FinalSegment
    /\ NameExamples

\* C16 witness: foo::Bar declared in foo.h was resolved, and its namespace foo
\* appears once.
C16_Witness ==
  /\ NameDone
  /\ name_result.ok
  /\ name_input.name = <<"f","o","o",":",":","B","a","r">>
  /\ name_input.include_file = <<"f","o","o",".","h">>
  /\ ~name_input.is_function
  /\ name_result.parts = <<crate_name, <<"f","o","o">>, <<"B","a","r">>>>

\* C17: no segment of a path that calculate_rust_name returns is a bare
\* reserved word of Rust: module segments, namespace segments and the final
\* segment are escaped with "_" when they are one.
C17_NoBareReservedWord ==
  (NameDone /\ name_result.ok) =>
    \A i \in DOMAIN name_result.parts : name_result.parts[i] \notin ReservedWords

(***************************************************************************)
(* Claims about unresolved declaring units (SpecRun)                       *)
(***************************************************************************)
\* The free functions of the input whose header has no top level module.
UnresolvedFunctions ==
  {i \in DOMAIN run_methods :
     /\ run_methods[i].class_membership = None
     /\ run_methods[i].include_file \notin DOMAIN top_module_names}

\* C18: when the header of a free function has no top level module, so that
\* its name cannot be resolved, only that function is skipped and the other
\* entities are processed: the run fails, if at all, only after module
\* assembly because something was left unplaced.
C18_UnresolvedEntityOnlySkipped ==
  (/\ pc = "run_done"
   /\ UnresolvedFunctions # {}
   /\ run_instantiations = <<>>
   /\ run_result.status # "Ok") =>
    /\ run_result.status = "Err"
    /\ run_result.error \in {"unprocessed cpp methods left", "unprocessed cpp types left"}

(***************************************************************************)
(* Claims about the caption strategies (SpecOverload)                      *)
(***************************************************************************)
\* The strategies in the order the claim gives: caller-trust marker alone,
\* receiver kind alone, receiver kind plus bucket index, plus joined argument
\* names, plus joined argument-type captions.
ClaimedStrategyOrder ==
  <<"UnsafeOnly", "SelfOnly", "SelfAndIndex", "SelfAndArgNames", "SelfAndArgTypes">>

\* The caption of member i of bucket b under a strategy: [ok, caption].
MemberCaption(strategy, b, i) ==
  name_suffix(Buckets[b][i], strategy, all_self_args_of(Buckets), b - 1)

\* A strategy converges: every member has a caption, the members of a bucket
\* have the same one, and the captions of two buckets differ.
Converges(strategy) ==
  /\ \A b \in DOMAIN Buckets : \A i \in DOMAIN Buckets[b] :
       /\ MemberCaption(strategy, b, i).ok
       /\ MemberCaption(strategy, b, i).caption = MemberCaption(strategy, b, 1).caption
  /\ \A b1, b2 \in DOMAIN Buckets :
       b1 # b2 => MemberCaption(strategy, b1, 1).caption # MemberCaption(strategy, b2, 1).caption

\* Position in the claimed order of the first strategy that converges; 0 if
\* none does.
FirstConverging ==
  IF \E k \in DOMAIN ClaimedStrategyOrder : Converges(ClaimedStrategyOrder[k])
  THEN CHOOSE k \in DOMAIN ClaimedStrategyOrder :
         /\ Converges(ClaimedStrategyOrder[k])
         /\ \A j \in 1..(k - 1) : ~Converges(ClaimedStrategyOrder[j])
  ELSE 0

ReturnsCaptionsOf(k) ==
  IF k = 0 THEN ~ov_result.ok
  ELSE /\ ov_result.ok
       /\ ov_result.strategy = ClaimedStrategyOrder[k]
       /\ ov_result.names =
            [b \in DOMAIN Buckets |-> MemberCaption(ClaimedStrategyOrder[k], b, 1).caption]

\* C19 as stated: the captions returned are pairwise distinct and either all
\* non-empty or all empty.
C19_Original ==
  (OverloadDone /\ ov_result.ok) =>
    /\ \A b1, b2 \in DOMAIN ov_result.names :
         b1 # b2 => ov_result.names[b1] # ov_result.names[b2]
    /\ \/ \A b \in DOMAIN ov_result.names : ov_result.names[b] # None
       \/ \A b \in DOMAIN ov_result.names : ov_result.names[b] = None

\* C19 (as amended): overload_functions tries the strategies in the fixed
\* order caller-trust marker alone, receiver kind alone, receiver kind plus
\* bucket index, plus joined argument names, plus joined argument-type
\* captions, and returns the captions of the first strategy under which every
\* method has a caption, the members of each bucket have the same caption and
\* the captions are pairwise distinct across the buckets; one bucket may have
\* the empty caption beside non-empty ones.  If no strategy qualifies the call
\* fails.
C19_FirstConvergingStrategyWins ==
  OverloadDone => ReturnsCaptionsOf(FirstConverging)

\* C19 witness: the first two strategies did not converge, the third was
\* taken.
C19_Witness ==
  /\ OverloadDone
  /\ ov_result.ok
  /\ ov_result.strategy = "SelfAndIndex"
  /\ ~Converges("UnsafeOnly")
  /\ ~Converges("SelfOnly")

\* The receiver-kind caption can be computed for every method: name_suffix
\* returns no error under a strategy that reads the receiver kinds.
ReceiverCaptionsComputable ==
  \A b \in DOMAIN Buckets : \A i \in DOMAIN Buckets[b] :
    MemberCaption("SelfAndIndex", b, i).ok

\* A by-value receiver stands next to another receiver kind.
ValueReceiverBesideOther ==
  /\ "Value" \in all_self_args_of(Buckets)
  /\ Cardinality(all_self_args_of(Buckets)) > 1

FinalDone == pc = "final_done"

\* The last name shared by the methods of the call.
BareName == ov_methods[1].name[Len(ov_methods[1].name)]

SingleMember(b) == Len(Buckets[b]) = 1

\* The last name of the method made of bucket b: the bare name, or the
\* snake-case conversion of the bare name and the caption when
\* overload_functions returned a caption for the bucket.
CaptionedName(b) ==
  IF ov_result.names[b] = None THEN BareName
  ELSE words_to_snake_case(<<BareName, ov_result.names[b][2]>>)

\* The method made of a single-member bucket is a plain method (no
\* parameters trait) of the one C function, under the given last name.
PlainMethodNamed(b, last_name) ==
  /\ ov_final.methods[b].trait = None
  /\ ov_final.methods[b].variants = <<Buckets[b][1].c_name>>
  /\ ov_final.methods[b].name = OverloadModule \o <<last_name>>

InTemplateLoop == pc = "run_templates" /\ unnamed_items # <<>>

\* The instantiations pending when the while loop is entered: one item for
\* every instantiation of the input.
InitiallyPending == Len(run_instantiations)

\* An iteration of the while loop takes an item out of the pending list, or
\* the loop is over after it or after the iteration that follows it.
PassShrinksOrEnds ==
  [][InTemplateLoop =>
       \/ Len(unnamed_items') < Len(unnamed_items)
       \/ pc' # "run_templates"
       \/ ~any_success']_vars

\* Every step taken inside the while loop begins a new iteration or leaves
\* the loop: the loop cannot go on without being counted.
EveryLoopStepCounts ==
  [][pc = "run_templates" => (passes' = passes + 1 \/ pc' # "run_templates")]_vars

\* C21: the fixed-point loop of calc_processed_types terminates: every
\* iteration moves a pending instantiation out of the list or is the last
\* one that tries, an iteration that finds the flag unset leaves the loop,
\* and the loop has at most (initially pending + 1) iterations.
C21_TemplateLoopTerminates ==
  /\ [](passes <= InitiallyPending + 1)
  /\ EveryLoopStepCounts
  /\ PassShrinksOrEnds
  /\ [][(InTemplateLoop /\ ~any_success) => pc' # "run_templates"]_vars

\* C21 witness: two instantiations were pending and the loop took three
\* iterations before the run went on.
C21_Witness ==
  /\ pc = "run_filter"
  /\ InitiallyPending = 2
  /\ passes = 3

=============================================================================
